---------------------------- MODULE Spec2Model ----------------------------
(***************************************************************************)
(* A model of the ideal-gas class `ig` of PYroMat                          *)
(* (src/src/pyromat/registry/ig.py): the argument resolver _argparse, the  *)
(* polynomial evaluators, the Newton inverter _iter1 and the public        *)
(* property methods.  Spec is the class as its users call it; IterSpec is  *)
(* _iter1 called on its own, one pass of a loop at a time; LoadSpec is the *)
(* constructor and the self-test _test on records that may be malformed.   *)
(*                                                                         *)
(* Real quantities are fixed-point integers: temperatures, pressures (Pa   *)
(* or bar), densities, enthalpies and energies carry two decimals (29815   *)
(* is 298.15); specific heats, entropies and the gas constant const_Ru     *)
(* carry three.  An array is a sequence of such numbers; a scalar          *)
(* argument is the one-element array _argparse reshapes it to              *)
(* (ig.py:176-180).  Python's None is the empty set and a populated slot   *)
(* is the singleton {array}.                                               *)
(***************************************************************************)
EXTENDS Integers, Sequences, FiniteSets, TLC

VARIABLES
    config,     \* pm.config: unit_temperature, unit_pressure, def_T, def_p
    pc,         \* "idle": no call in progress; "done": a call has finished
    call,       \* the call made: [method, varg, kwarg]
    res,        \* what _argparse did in that call (see Argparse)
    out,        \* what the public method returned or raised
    frame,      \* the activation record of a call of _iter1 made on its own
    data,       \* self.data: the substance record the object was built with
    test        \* the activation record of a call of _test

vars == <<config, pc, call, res, out, frame, data, test>>

----------------------------------------------------------------------------
(* Bounds of the model                                                     *)

\* longest temperature array a caller passes
MaxTLen == 9
\* most keyword arguments in one call
MaxKw == 3
\* most positional arguments in one call
MaxPos == 3

----------------------------------------------------------------------------
(* Python values                                                           *)

None == {}
Some(a) == {a}
Get(o) == CHOOSE a \in o : TRUE

\* dict[k] = v
Put(f, k, v) == [n \in (DOMAIN f) \cup {k} |-> IF n = k THEN v ELSE f[n]]
\* del dict[k]
Del(f, k) == [n \in (DOMAIN f) \ {k} |-> f[n]]
EmptyDict == [n \in {} |-> <<>>]

\* np.full_like(y, v)
Fill(n, v) == [i \in 1..n |-> v]

\* a[I] for a boolean index I given as a predicate on the values
RECURSIVE Select(_, _)
Select(a, bad) ==
    IF a = <<>> THEN <<>>
    ELSE (IF Head(a) \in bad THEN <<Head(a)>> ELSE <<>>) \o Select(Tail(a), bad)

\* a[:n]
Take(a, n) == SubSeq(a, 1, IF Len(a) < n THEN Len(a) ELSE n)

----------------------------------------------------------------------------
(* The substance record and the constants of the class                     *)

\* data['Tlim']: 200 K, 1000 K, 2000 K (two regions)
Tlim == <<20000, 100000, 200000>>

\* self._pref_pa = 1e5 Pa
pref_pa == 10000000

\* the message of an out-of-range temperature lists kwarg['T'][I][:8]
MsgValues == 8

\* 1000 * pm.units.const_Ru, J/kmol/K, rounded to an integer
R_J_kmol == 8314

\* pm.units.const_Ru = 8.314 kJ/kmol/K, with three decimals
const_Ru == 8314

\* data['C']: one group of 8 coefficients per region.  In this record only
\* C[1], C[5] and C[6] are non-zero: cp = C[1]*t grows linearly with
\* t = T/1000, h = 1000*(C[5] + C[1]*t*t/2) and s = C[6] + C[1]*t.  h and s
\* are continuous at the breakpoint (49000 kJ/kmol, 150 kJ/kmol/K); cp
\* steps from 100 to 200 kJ/kmol/K there.
DataC ==
    << <<0, 100, 0, 0, 0, -1, 50, 0>>,
       <<0, 200, 0, 0, 0, -51, -50, 0>> >>

\* data['mw']: 28.01 g/mol, with three decimals
data_mw == 28010

\* reg.py:117: the entries __basetest__ requires of every record
mandatory == {"id", "class", "doc", "fromfile"}

\* self.data of the substance: the entries present, the breakpoints and
\* the coefficient groups
Record == [keys |-> mandatory \cup {"Tlim", "C", "mw"}, Tlim |-> Tlim, C |-> DataC]

\* _iter1's defaults: ep = 1e-6 (as 1/EpInv) and Nmax = 20
EpInv == 1000000
Nmax_default == 20

----------------------------------------------------------------------------
(* pm.config and pm.units                                                  *)
(* The configurations keep unit_energy = 'kJ' and unit_volume = 'm3', for  *)
(* which pm.units.energy and pm.units.volume pass the array through        *)
(* (ig.py:182-186); temperature, pressure and matter units vary.           *)

\* Kelvin, bar, kmol: def_T = 298.15 K, def_p = 1.01 bar
ConfigDefault ==
    [unit_temperature |-> "K", unit_pressure |-> "bar", unit_matter |-> "kmol",
     def_T |-> <<29815>>, def_p |-> <<101>>]

Configs ==
    { ConfigDefault,
      \* Celsius, Pascal, mol: def_T = 25 C, def_p = 101325 Pa
      [unit_temperature |-> "C", unit_pressure |-> "Pa", unit_matter |-> "mol",
       def_T |-> <<2500>>, def_p |-> <<10132500>>],
      \* a default temperature below the substance's range (100 K)
      [unit_temperature |-> "K", unit_pressure |-> "bar", unit_matter |-> "kmol",
       def_T |-> <<10000>>, def_p |-> <<101>>] }

\* pm.units.temperature_scale(a, to_units='K')
temperature_scale_to_K(a, cfg) ==
    [i \in DOMAIN a |-> IF cfg.unit_temperature = "C" THEN a[i] + 27315 ELSE a[i]]

\* pm.units.temperature_scale(a, from_units='K')
temperature_scale_from_K(a, cfg) ==
    [i \in DOMAIN a |-> IF cfg.unit_temperature = "C" THEN a[i] - 27315 ELSE a[i]]

\* pm.units.pressure(a, to_units='Pa')
pressure_to_Pa(a, cfg) ==
    [i \in DOMAIN a |-> IF cfg.unit_pressure = "bar" THEN a[i] * 100000 ELSE a[i]]

\* pm.units.matter(a, mw, to_units='kmol', exponent=e) for e = 1 and e = -1
matter_to_kmol(a, cfg, exponent) ==
    [i \in DOMAIN a |->
        IF cfg.unit_matter = "mol"
        THEN (IF exponent = 1 THEN a[i] \div 1000 ELSE a[i] * 1000)
        ELSE a[i]]

\* numpy's float division x / 0 yields inf: the largest number of the model
Inf == 2147483647

\* 1. / a, elementwise, in fixed point
Reciprocal(a) == [i \in DOMAIN a |-> IF a[i] = 0 THEN Inf ELSE 10000 \div a[i]]

----------------------------------------------------------------------------
(* The polynomial evaluators.  Temperatures and enthalpies have two        *)
(* decimals (K, kJ/kmol); specific heats, entropies and the gas constant   *)
(* have three (kJ/kmol/K).                                                 *)

Abs(a) == IF a < 0 THEN -a ELSE a

\* a / b in floating point, rounded to the nearest number of the model;
\* x / 0 is inf
Quot(a, b) ==
    IF b = 0 THEN (IF a < 0 THEN -Inf ELSE Inf)
    ELSE LET q == (2 * Abs(a) + Abs(b)) \div (2 * Abs(b))
         IN  IF (a < 0) = (b < 0) THEN q ELSE -q

\* every region is exclusive above
_crange_UpperExclusive(T, index) ==
    [i \in DOMAIN T |-> T[i] >= Tlim[index + 1] /\ T[i] < Tlim[index + 2]]

\* ig.py:313-329: _crange(T, index), index counted from 0 as in the code
_crange(T, index) ==
    IF index = Len(Tlim) - 2
    THEN [i \in DOMAIN T |-> T[i] >= Tlim[index + 1] /\ T[i] <= Tlim[index + 2]]
    ELSE [i \in DOMAIN T |-> T[i] >= Tlim[index + 1] /\ T[i] < Tlim[index + 2]]

\* ig.py:450-452: for ii in range(len(Tlim)-1): I = self._crange(T, ii);
\* the regions whose mask selects each element
Regions(T) ==
    [i \in DOMAIN T |-> {ii \in 0..(Len(Tlim) - 2) : _crange(T, ii)[i]}]

\* out[I] = ... in a loop over the regions: the last region that selects an
\* element writes it last; an element no region selects keeps the 0 of
\* np.zeros_like.  -1 stands for no region.
Writer(regs) == IF regs = {} THEN -1 ELSE CHOOSE ii \in regs : \A jj \in regs : jj <= ii

\* T*T / 2000 for T with two decimals, in two halves so that no product
\* leaves the 32-bit integers
TSquared2000(T) ==
    LET a == T \div 100
        b == T % 100
    IN  5 * a * a + Quot(200 * a * b + b * b, 2000)

\* ig.py:454: C[0] + t*(C[1] + t*(C[2] + t*C[3])) + C[4]/(t*t), t = T/1000,
\* for a group with C[0] = C[2] = C[3] = C[4] = 0
cp_formula(C, T) == (C[2] \div 100) * T

\* ig.py:478, 482: 1000 * (C[5] + t*(C[0] + t*(C[1]/2 + ...)) - C[4]/t)
h_formula(C, T) == 100000 * C[6] + (C[2] \div 100) * TSquared2000(T)

\* ig.py:518: C[6] + C[0]*log(t) + t*(C[1] + t*(C[2]/2 + t*C[3]/3)) - C[4]/(2*t*t)
s_formula(C, T) == 1000 * C[7] + (C[2] \div 100) * T

\* ig.py:440-455: _cp(T)
_cp(T) ==
    LET w == [i \in DOMAIN T |-> Writer(Regions(T)[i])]
    IN  [i \in DOMAIN T |-> IF w[i] < 0 THEN 0 ELSE cp_formula(DataC[w[i] + 1], T[i])]

\* What an evaluator hands to _iter1: kind is "return" or the exception
\* class; f the values; fx the derivative, counted in steps of f per `per`
\* steps of x (the fixed-point form of one floating-point number).
Evaluated(f, fx, per) == [kind |-> "return", f |-> f, fx |-> fx, per |-> per]
EvalRaises(kind) == [kind |-> kind, f |-> <<>>, fx |-> <<>>, per |-> 1]

\* ig.py:457-483: _h(T, diff=True); hT is the cp polynomial (line 480)
_h(T) ==
    LET w == [i \in DOMAIN T |-> Writer(Regions(T)[i])]
    IN  Evaluated(
          [i \in DOMAIN T |-> IF w[i] < 0 THEN 0 ELSE h_formula(DataC[w[i] + 1], T[i])],
          [i \in DOMAIN T |-> IF w[i] < 0 THEN 0
                               ELSE cp_formula(DataC[w[i] + 1], T[i]) \div 100],
          10)

\* ig.py:498-523: _s(T, diff=True); sT = C[1]/1000 for this record
_s(T) ==
    LET w == [i \in DOMAIN T |-> Writer(Regions(T)[i])]
    IN  Evaluated(
          [i \in DOMAIN T |-> IF w[i] < 0 THEN 0 ELSE s_formula(DataC[w[i] + 1], T[i])],
          [i \in DOMAIN T |-> IF w[i] < 0 THEN 0 ELSE DataC[w[i] + 1][2]],
          100)

\* ig.py:485-496: _e(T, diff): `return h-R*T, hT-R` names R, which is
\* neither a local nor a global of ig.py: NameError, after _h has run
_e(T) == EvalRaises("NameError")

\* ig.py:428-436: _sditer(T, d, diff): line 429 names self_s, which is not
\* defined (self._s is meant): NameError
_sditer(T, d) == EvalRaises("NameError")

----------------------------------------------------------------------------
(* ig._argparse, step by step                                              *)

\* What one call of _argparse did.  kind is "return" or the exception
\* class raised, msg names the raise statement.
\*   varg, kwarg the arguments _argparse was called with
\*   T, p, d     the returned triplet (None or Some(array))
\*   listed      the values the out-of-range message lists; more: ", ..."
\*   defaulted   kwarg after step 1 (None when binding raised)
\*   dispatch    Some([inverse_args, basic_args, args]) when line 237 was
\*               reached, else None
\*   iter1       the _iter1 calls started; polys: the calls of the
\*               polynomial evaluators (_cp, _h, _s, _e, _sditer) started
\*   warned      _iter1 printed its non-convergence warning
\*   frame       Some(the frame of _iter1 when it returned or raised)
NoResult ==
    [kind |-> "none", msg |-> "", varg |-> <<>>, kwarg |-> [n \in {} |-> <<>>],
     T |-> None, p |-> None, d |-> None,
     listed |-> <<>>, more |-> FALSE, defaulted |-> None, dispatch |-> None,
     iter1 |-> 0, polys |-> 0, warned |-> FALSE, frame |-> None]

Raise(r, kind, msg) == [r EXCEPT !.kind = kind, !.msg = msg]

\* ig.py:101-111: positional arguments are T, p
BindPositional(varg, kwarg) ==
    IF Len(varg) > 0 /\ "T" \in DOMAIN kwarg
    THEN [err |-> "T_positional_and_keyword", kwarg |-> kwarg]
    ELSE LET k1 == IF Len(varg) > 0 THEN Put(kwarg, "T", varg[1]) ELSE kwarg
         IN  IF Len(varg) > 1 /\ "p" \in DOMAIN k1
             THEN [err |-> "p_positional_and_keyword", kwarg |-> k1]
             ELSE LET k2 == IF Len(varg) > 1 THEN Put(k1, "p", varg[2]) ELSE k1
                  IN  IF Len(varg) > 2
                      THEN [err |-> "only_two_positional", kwarg |-> k2]
                      ELSE [err |-> "", kwarg |-> k2]

\* the defaults applied pressure first
ApplyDefaults_PressureFirst(kwarg, cfg) ==
    LET nargs == Cardinality(DOMAIN kwarg)
    IN  IF nargs = 1
        THEN IF "p" \notin DOMAIN kwarg
             THEN Put(kwarg, "p", cfg.def_p)
             ELSE Put(kwarg, "T", cfg.def_T)
        ELSE IF nargs = 0
             THEN Put(Put(kwarg, "T", cfg.def_T), "p", cfg.def_p)
             ELSE kwarg

\* ig.py:113-122: the defaults, temperature first
ApplyDefaults(kwarg, cfg) ==
    LET nargs == Cardinality(DOMAIN kwarg)
    IN  IF nargs = 1
        THEN IF "T" \notin DOMAIN kwarg
             THEN Put(kwarg, "T", cfg.def_T)
             ELSE Put(kwarg, "p", cfg.def_p)
        ELSE IF nargs = 0
             THEN Put(Put(kwarg, "T", cfg.def_T), "p", cfg.def_p)
             ELSE kwarg

\* ig.py:133-139
InverseNames == {"e", "h", "s"}
BasicNames == {"T", "p", "d", "v"}
LegalNames == InverseNames \cup BasicNames

\* rule 2.1 off by one: three arguments pass
ArgumentRules_AllowThree(kwarg) ==
    LET nargs == Cardinality(DOMAIN kwarg)
        args == DOMAIN kwarg
    IN  IF nargs > 3 THEN "more_than_two"
        ELSE IF args \ LegalNames # {} THEN "unrecognized"
        ELSE IF Cardinality(InverseNames \cap args) > 1 THEN "inverse_together"
        ELSE IF "v" \in args /\ "d" \in args THEN "d_and_v"
        ELSE ""

\* rule 2.4 left out
ArgumentRules_NoDensityVolume(kwarg) ==
    LET nargs == Cardinality(DOMAIN kwarg)
        args == DOMAIN kwarg
    IN  IF nargs > 2 THEN "more_than_two"
        ELSE IF args \ LegalNames # {} THEN "unrecognized"
        ELSE IF Cardinality(InverseNames \cap args) > 1 THEN "inverse_together"
        ELSE ""

\* the rules in the order of the comment of ig.py:83-84: legal names first
ArgumentRules_LegalFirst(kwarg) ==
    LET nargs == Cardinality(DOMAIN kwarg)
        args == DOMAIN kwarg
    IN  IF args \ LegalNames # {} THEN "unrecognized"
        ELSE IF nargs > 2 THEN "more_than_two"
        ELSE IF Cardinality(InverseNames \cap args) > 1 THEN "inverse_together"
        ELSE IF "v" \in args /\ "d" \in args THEN "d_and_v"
        ELSE ""

\* ig.py:144-171: the argument rules 2.1-2.4; "" when all pass
ArgumentRules(kwarg) ==
    LET nargs == Cardinality(DOMAIN kwarg)
        args == DOMAIN kwarg
    IN  IF nargs > 2 THEN "more_than_two"
        ELSE IF args \ LegalNames # {} THEN "unrecognized"
        ELSE IF Cardinality(InverseNames \cap args) > 1 THEN "inverse_together"
        ELSE IF "v" \in args /\ "d" \in args THEN "d_and_v"
        ELSE ""

\* only the lower limit is tested
OutOfRange_NoUpper(T) == {T[i] : i \in {j \in DOMAIN T : T[j] < Tlim[1]}}

\* ig.py:193: the elements of T outside [Tlim[0], Tlim[-1]]
OutOfRange(T) == {T[i] : i \in {j \in DOMAIN T : T[j] < Tlim[1] \/ T[j] > Tlim[Len(Tlim)]}}

\* ig.py:191-229: unit conversion of every argument; v is replaced by d.
\* The per-degree conversion of s (line 228) is the same for Kelvin and
\* Celsius and leaves the value as it is.
ConvertT(kwarg, cfg) ==
    IF "T" \in DOMAIN kwarg
    THEN Put(kwarg, "T", temperature_scale_to_K(kwarg["T"], cfg)) ELSE kwarg
ConvertP(kwarg, cfg) ==
    IF "p" \in DOMAIN kwarg
    THEN Put(kwarg, "p", pressure_to_Pa(kwarg["p"], cfg)) ELSE kwarg
ConvertD(kwarg, cfg) ==
    IF "d" \in DOMAIN kwarg
    THEN Put(kwarg, "d", matter_to_kmol(kwarg["d"], cfg, 1)) ELSE kwarg
ConvertV(kwarg, cfg) ==
    IF "v" \in DOMAIN kwarg
    THEN Del(Put(kwarg, "d", Reciprocal(matter_to_kmol(kwarg["v"], cfg, -1))), "v")
    ELSE kwarg
ConvertMolar(kwarg, n, cfg) ==
    IF n \in DOMAIN kwarg
    THEN Put(kwarg, n, matter_to_kmol(kwarg[n], cfg, -1)) ELSE kwarg
ConvertUnits(kwarg, cfg) ==
    ConvertMolar(
        ConvertMolar(
            ConvertMolar(
                ConvertV(ConvertD(ConvertP(ConvertT(kwarg, cfg), cfg), cfg), cfg),
                "h", cfg),
            "e", cfg),
        "s", cfg)

\* ig.py:207-213: args after v was replaced by d
ArgsAfterConvert(args) == IF "v" \in args THEN (args \ {"v"}) \cup {"d"} ELSE args

\* np.broadcast_arrays(a, b) for one-dimensional arrays: None when the
\* shapes are incompatible (numpy raises ValueError)
CanBroadcast(a, b) == Len(a) = Len(b) \/ Len(a) = 1 \/ Len(b) = 1
BroadcastLen(a, b) == IF Len(a) = 1 THEN Len(b) ELSE Len(a)
BroadcastTo(a, n) == IF Len(a) = n THEN a ELSE Fill(n, a[1])

\* ig.py:252, 265: 0.5*(Tlim[0] + Tlim[-1])
MidT == (Tlim[1] + Tlim[Len(Tlim)]) \div 2

\* the gas constant is left out
TFromPD_NoGasConstant(p, d) ==
    [i \in DOMAIN p |-> IF d[i] = 0 THEN Inf ELSE (p[i] * 100) \div d[i]]

\* ig.py:295: T = p / (R * d), elementwise
TFromPD(p, d) ==
    [i \in DOMAIN p |-> IF d[i] = 0 THEN Inf ELSE (p[i] * 100) \div (R_J_kmol * d[i])]

\* fn(diff=True, **arg) of ig.py:393 for the inner routines the resolver
\* inverts; param holds the keyword arguments beside T
Eval(fn, x, param) ==
    CASE fn = "_h" -> _h(x)
      [] fn = "_s" -> _s(x)
      [] fn = "_e" -> _e(x)
      [] fn = "_sditer" -> _sditer(x, param["d"])

\* the place of element i in a[I], for a boolean index array I with I[i]
Rank(I, i) == Cardinality({j \in 1..i : I[j]})

\* a[I] for a boolean index array I
Index(a, I) ==
    [k \in 1..Cardinality({j \in DOMAIN I : I[j]}) |->
        a[CHOOSE i \in DOMAIN I : I[i] /\ Rank(I, i) = k]]

\* ig.py:386-389: arg[k] = v[Ids] for the array arguments of param
ShrinkParam(param, I) == [k \in DOMAIN param |-> Index(param[k], I)]

AnyOf(I) == \E i \in DOMAIN I : I[i]
CountOf(I) == Cardinality({i \in DOMAIN I : I[i]})

\* dx /= 2. in fixed point: the half, cut towards zero
Half(a) == IF a < 0 THEN -((-a) \div 2) ELSE a \div 2

\* ig.py:332-380: the activation record of _iter1(fn, prop, y, x, Ids, xmin,
\* xmax, Nmax=Nmax, param=param) when the loop of line 384 is first reached.
\*   at      where the call is: "while" (line 384), "halve" (line 408),
\*           "converge" (line 419), "return" or "raise"
\*   kind    "return" or the exception class, once the call is over
\*   warned  print_warning of line 423 was called, for `failed` elements
\*   evals   the calls of fn made so far
\*   epinv   1/ep, ep the keyword argument of line 333 (default 1e-6)
\*   x0, Ids0  x and Ids as the caller handed them in
\*   xe      x as it was when fn was last called (before the step)
\*   xt      for each element, x as it was when the element was last handed
\*           to fn: the value its error belongs to
\*   calls   how often each element has been handed to fn
\*   dx0     the Newton step of this outer iteration as first computed
\*   halved  how often the step of each element was halved in this outer
\*           iteration
Frame(fn, param, y, x, Ids, xmin, xmax, Nmax) ==
    [fn |-> fn, param |-> param, y |-> y, xmin |-> xmin, xmax |-> xmax, Nmax |-> Nmax,
     epinv |-> EpInv,
     x |-> x, Ids |-> Ids, x0 |-> x, Ids0 |-> Ids,
     xe |-> x, xt |-> x, calls |-> [i \in DOMAIN y |-> 0],
     dx0 |-> [i \in DOMAIN y |-> 0], halved |-> [i \in DOMAIN y |-> 0],
     dx |-> [i \in DOMAIN y |-> 0], error |-> [i \in DOMAIN y |-> 0],
     IooB |-> [i \in DOMAIN Ids |-> FALSE],
     count |-> 0, count_oob |-> 0,
     at |-> "while", kind |-> "none", warned |-> FALSE, failed |-> 0, evals |-> 0]

OutOfBounds(x, xmin, xmax) == [i \in DOMAIN x |-> x[i] < xmin \/ x[i] > xmax]

\* the down-select is forgotten: fn is handed all of x and every element
\* is stepped
iter1_while_EveryElement(F) ==
    IF ~AnyOf(F.Ids) THEN [F EXCEPT !.at = "return", !.kind = "return"]
    ELSE
    LET FF == Eval(F.fn, F.x, F.param)
        calls == [i \in DOMAIN F.calls |-> F.calls[i] + 1]
        xt == [i \in DOMAIN F.x |-> IF F.Ids[i] THEN F.x[i] ELSE F.xt[i]]
    IN
    IF FF.kind # "return"
    THEN [F EXCEPT !.at = "raise", !.kind = FF.kind, !.evals = @ + 1,
                   !.xe = F.x, !.calls = calls, !.xt = xt]
    ELSE
    LET error == [i \in DOMAIN F.y |-> F.y[i] - FF.f[i]]
        dx == [i \in DOMAIN F.y |-> Quot(error[i] * FF.per, FF.fx[i])]
        x == [i \in DOMAIN F.x |-> F.x[i] + dx[i]]
        IooB == OutOfBounds(x, F.xmin, F.xmax)
    IN  [F EXCEPT !.error = error, !.dx = dx, !.x = x, !.IooB = IooB,
                  !.count_oob = 0, !.evals = @ + 1, !.xe = F.x, !.calls = calls, !.xt = xt,
                  !.dx0 = dx, !.halved = [i \in DOMAIN F.y |-> 0],
                  !.at = IF AnyOf(IooB) THEN "halve" ELSE "converge"]

\* ig.py:384-407: the loop test, the evaluation of fn on the active
\* elements, the Newton step x[Ids] += dx[Ids] and the bounds test
iter1_while(F) ==
    IF ~AnyOf(F.Ids) THEN [F EXCEPT !.at = "return", !.kind = "return"]
    ELSE
    LET FF == Eval(F.fn, Index(F.x, F.Ids), ShrinkParam(F.param, F.Ids))
        calls == [i \in DOMAIN F.calls |-> F.calls[i] + IF F.Ids[i] THEN 1 ELSE 0]
        xt == [i \in DOMAIN F.x |-> IF F.Ids[i] THEN F.x[i] ELSE F.xt[i]]
    IN
    IF FF.kind # "return"
    THEN [F EXCEPT !.at = "raise", !.kind = FF.kind, !.evals = @ + 1,
                   !.xe = F.x, !.calls = calls, !.xt = xt]
    ELSE
    LET error == [i \in DOMAIN F.y |->
                    IF F.Ids[i] THEN F.y[i] - FF.f[Rank(F.Ids, i)] ELSE F.error[i]]
        dx == [i \in DOMAIN F.y |->
                 IF F.Ids[i] THEN Quot(error[i] * FF.per, FF.fx[Rank(F.Ids, i)])
                 ELSE F.dx[i]]
        x == [i \in DOMAIN F.x |-> IF F.Ids[i] THEN F.x[i] + dx[i] ELSE F.x[i]]
        IooB == OutOfBounds(x, F.xmin, F.xmax)
    IN  [F EXCEPT !.error = error, !.dx = dx, !.x = x, !.IooB = IooB,
                  !.count_oob = 0, !.evals = @ + 1, !.xe = F.x, !.calls = calls, !.xt = xt,
                  !.dx0 = dx, !.halved = [i \in DOMAIN F.y |-> 0],
                  !.at = IF AnyOf(IooB) THEN "halve" ELSE "converge"]

\* the inversion is given up one halving early
iter1_halve_AbortEarly(F) ==
    LET dx == [i \in DOMAIN F.dx |-> IF F.IooB[i] THEN Half(F.dx[i]) ELSE F.dx[i]]
        x == [i \in DOMAIN F.x |-> IF F.IooB[i] THEN F.x[i] - dx[i] ELSE F.x[i]]
        IooB == OutOfBounds(x, F.xmin, F.xmax)
        halved == [i \in DOMAIN F.dx |-> F.halved[i] + IF F.IooB[i] THEN 1 ELSE 0]
        F1 == [F EXCEPT !.dx = dx, !.x = x, !.IooB = IooB, !.count_oob = @ + 1,
                        !.halved = halved]
    IN  IF F1.count_oob >= F.Nmax
        THEN [F1 EXCEPT !.at = "raise", !.kind = "PMAnalysisError"]
        ELSE [F1 EXCEPT !.at = IF AnyOf(IooB) THEN "halve" ELSE "converge"]

\* the step of every element is halved and taken back, not only that of
\* the elements out of bounds (dx /= 2.; x -= dx)
iter1_halve_EveryElement(F) ==
    LET dx == [i \in DOMAIN F.dx |-> Half(F.dx[i])]
        x == [i \in DOMAIN F.x |-> F.x[i] - dx[i]]
        IooB == OutOfBounds(x, F.xmin, F.xmax)
        halved == [i \in DOMAIN F.dx |-> F.halved[i] + IF F.IooB[i] THEN 1 ELSE 0]
        F1 == [F EXCEPT !.dx = dx, !.x = x, !.IooB = IooB, !.count_oob = @ + 1,
                        !.halved = halved]
    IN  IF F1.count_oob > F.Nmax
        THEN [F1 EXCEPT !.at = "raise", !.kind = "PMAnalysisError"]
        ELSE [F1 EXCEPT !.at = IF AnyOf(IooB) THEN "halve" ELSE "converge"]

\* ig.py:408-416: one pass of the inner loop: halve the step of the
\* elements out of bounds, take it back, test the bounds again, count
iter1_halve(F) ==
    LET dx == [i \in DOMAIN F.dx |-> IF F.IooB[i] THEN Half(F.dx[i]) ELSE F.dx[i]]
        x == [i \in DOMAIN F.x |-> IF F.IooB[i] THEN F.x[i] - dx[i] ELSE F.x[i]]
        IooB == OutOfBounds(x, F.xmin, F.xmax)
        halved == [i \in DOMAIN F.dx |-> F.halved[i] + IF F.IooB[i] THEN 1 ELSE 0]
        F1 == [F EXCEPT !.dx = dx, !.x = x, !.IooB = IooB, !.count_oob = @ + 1,
                        !.halved = halved]
    IN  IF F1.count_oob > F.Nmax
        THEN [F1 EXCEPT !.at = "raise", !.kind = "PMAnalysisError"]
        ELSE [F1 EXCEPT !.at = IF AnyOf(IooB) THEN "halve" ELSE "converge"]

\* an element whose error equals the tolerance stays active
iter1_converge_StrictTolerance(F) ==
    LET Ids == [i \in DOMAIN F.Ids |->
                  F.Ids[i] /\ Abs(F.error[i]) >= Abs(F.y[i]) \div F.epinv]
        F1 == [F EXCEPT !.Ids = Ids, !.count = @ + 1]
    IN  IF F1.count > F.Nmax
        THEN [F1 EXCEPT !.warned = TRUE, !.failed = CountOf(Ids),
                        !.at = "return", !.kind = "return"]
        ELSE [F1 EXCEPT !.at = "while"]

\* an element is let go at twice the tolerance
iter1_converge_LooseTolerance(F) ==
    LET Ids == [i \in DOMAIN F.Ids |->
                  F.Ids[i] /\ Abs(F.error[i]) > 2 * (Abs(F.y[i]) \div F.epinv)]
        F1 == [F EXCEPT !.Ids = Ids, !.count = @ + 1]
    IN  IF F1.count > F.Nmax
        THEN [F1 EXCEPT !.warned = TRUE, !.failed = CountOf(Ids),
                        !.at = "return", !.kind = "return"]
        ELSE [F1 EXCEPT !.at = "while"]

\* ig.py:418-426: the convergence test of the active elements, the count
\* of the outer iterations, the warning
iter1_converge(F) ==
    LET Ids == [i \in DOMAIN F.Ids |->
                  F.Ids[i] /\ Abs(F.error[i]) > Abs(F.y[i]) \div F.epinv]
        F1 == [F EXCEPT !.Ids = Ids, !.count = @ + 1]
    IN  IF F1.count > F.Nmax
        THEN [F1 EXCEPT !.warned = TRUE, !.failed = CountOf(Ids),
                        !.at = "return", !.kind = "return"]
        ELSE [F1 EXCEPT !.at = "while"]

\* one step of the call
iter1_step(F) ==
    CASE F.at = "while" -> iter1_while(F)
      [] F.at = "halve" -> iter1_halve(F)
      [] F.at = "converge" -> iter1_converge(F)
      [] OTHER -> F

\* no call of _iter1 is in progress
NoFrame == [Frame("", <<>>, <<>>, <<>>, <<>>, 0, 0, 0) EXCEPT !.at = "none"]

\* ig.py:332-426: _iter1 run to its return or raise
RECURSIVE iter1_run(_)
iter1_run(F) == IF F.at \in {"return", "raise"} THEN F ELSE iter1_run(iter1_step(F))

\* a call of _iter1 that leaves Nmax at its default, as every call of
\* _argparse does
iter1(fn, param, y, x, Ids, xmin, xmax) ==
    iter1_run(Frame(fn, param, y, x, Ids, xmin, xmax, Nmax_default))

\* ig.py:133: inverse_methods
inverse_methods(invp) == CASE invp = "e" -> "_e" [] invp = "h" -> "_h" [] invp = "s" -> "_s"

\* ig.py:248-267: an inversion for T was run by _iter1 and ended as the
\* frame F; slot is the property that came with the inverse property
AfterIter(r, F, slot, a) ==
    LET r1 == [r EXCEPT !.iter1 = 1, !.polys = F.evals, !.warned = F.warned,
                        !.frame = Some(F)]
    IN  IF F.kind # "return" THEN Raise(r1, F.kind, "_iter1")
        ELSE IF slot = "d"
        THEN [r1 EXCEPT !.kind = "return", !.T = Some(F.x), !.d = Some(a)]
        ELSE [r1 EXCEPT !.kind = "return", !.T = Some(F.x), !.p = Some(a)]

\* np.log(p / self._pref_pa) with four decimals, as the model computes it:
\* exact where p/pref is a power of two, linear in between
RECURSIVE LogRatio(_)
LogRatio(p) ==
    IF p <= 0 THEN -Inf
    ELSE IF p >= 2 * pref_pa THEN 6931 + LogRatio(p \div 2)
    ELSE IF p < pref_pa THEN LogRatio(2 * p) - 6931
    ELSE Quot(((p - pref_pa) \div 1000) * 6931, pref_pa \div 1000)

\* pm.units.const_Ru * np.log(p / self._pref_pa), three decimals
RuLog(p) == [i \in DOMAIN p |-> Quot(const_Ru * LogRatio(p[i]), 10000)]

\* ig.py:249-258: an inverse property with density.  The upper bound
\* handed to _iter1 is Tlim[1], the second breakpoint.
InverseWithD(r, kwarg, invp) ==
    IF ~CanBroadcast(kwarg[invp], kwarg["d"])
    THEN {Raise(r, "ValueError", "broadcast")}
    ELSE LET n == BroadcastLen(kwarg[invp], kwarg["d"])
             y == BroadcastTo(kwarg[invp], n)
             d == BroadcastTo(kwarg["d"], n)
         IN  {AfterIter(r,
                iter1(IF invp = "s" THEN "_sditer" ELSE inverse_methods(invp),
                      IF invp = "s" THEN [n0 \in {"d"} |-> d] ELSE EmptyDict,
                      y, Fill(n, MidT), Fill(n, TRUE), Tlim[1], Tlim[2]),
                "d", d)}

\* ig.py:260-267: an inverse property with pressure; entropy is first
\* shifted to the reference pressure (line 264)
InverseWithP(r, kwarg, invp) ==
    IF ~CanBroadcast(kwarg[invp], kwarg["p"])
    THEN {Raise(r, "ValueError", "broadcast")}
    ELSE LET n == BroadcastLen(kwarg[invp], kwarg["p"])
             y0 == BroadcastTo(kwarg[invp], n)
             p == BroadcastTo(kwarg["p"], n)
             y == IF invp = "s" THEN [i \in DOMAIN y0 |-> y0[i] + RuLog(p)[i]] ELSE y0
         IN  {AfterIter(r,
                iter1(inverse_methods(invp), EmptyDict, y, Fill(n, MidT),
                      Fill(n, TRUE), Tlim[1], Tlim[Len(Tlim)]),
                "p", p)}

\* the illegal combination is let through
InverseWithT_NoRaise(r, invp) ==
    IF invp = "s"
    THEN {Raise([r EXCEPT !.polys = 1], "TypeError", "_s_of_None")}
    ELSE {[r EXCEPT !.kind = "return"]}

\* ig.py:269-276: an inverse property with temperature.  For entropy,
\* line 272 evaluates self._s(T) while T is still None (line 237): _crange
\* compares None with a number, a TypeError.
InverseWithT(r, invp) ==
    IF invp = "s"
    THEN {Raise([r EXCEPT !.polys = 1], "TypeError", "_s_of_None")}
    ELSE {Raise(r, "PMParamError", "T_with_inverse")}

\* ig.py:239-276: one inverse property and what came with it
InverseCase(r, kwarg, inverse_args, basic_args) ==
    LET invp == CHOOSE n \in inverse_args : TRUE IN
    IF basic_args = {} THEN {Raise(r, "KeyError", "pop_from_empty_set")}
    ELSE LET basp == CHOOSE n \in basic_args : TRUE
         IN  IF basp = "d" THEN InverseWithD(r, kwarg, invp)
             ELSE IF basp = "p" THEN InverseWithP(r, kwarg, invp)
             ELSE IF basp = "T" THEN InverseWithT(r, invp)
             \* basp = "v": no branch of lines 249-276 is taken
             ELSE {[r EXCEPT !.kind = "return"]}

\* ig.py:281, 283, 294: two basic properties a, b, broadcast
Broadcast2(kwarg, a, b) ==
    IF ~CanBroadcast(kwarg[a], kwarg[b])
    THEN [ok |-> FALSE, a |-> <<>>, b |-> <<>>]
    ELSE LET n == BroadcastLen(kwarg[a], kwarg[b])
         IN  [ok |-> TRUE, a |-> BroadcastTo(kwarg[a], n), b |-> BroadcastTo(kwarg[b], n)]

\* ig.py:277-309: no inverse property
DirectCase(r, kwarg, args) ==
    IF "T" \in args
    THEN IF "p" \in args
         THEN LET bc == Broadcast2(kwarg, "T", "p")
              IN  IF ~bc.ok THEN {Raise(r, "ValueError", "broadcast")}
                  ELSE {[r EXCEPT !.kind = "return", !.T = Some(bc.a), !.p = Some(bc.b)]}
         ELSE IF "d" \in args
         THEN LET bc == Broadcast2(kwarg, "T", "d")
              IN  IF ~bc.ok THEN {Raise(r, "ValueError", "broadcast")}
                  ELSE {[r EXCEPT !.kind = "return", !.T = Some(bc.a), !.d = Some(bc.b)]}
         ELSE {Raise(r, "PMParamError", "bug_T")}
    ELSE IF "p" \in args
    THEN IF "d" \in args
         THEN LET bc == Broadcast2(kwarg, "p", "d")
              IN  IF ~bc.ok THEN {Raise(r, "ValueError", "broadcast")}
                  ELSE {[r EXCEPT !.kind = "return", !.T = Some(TFromPD(bc.a, bc.b)),
                                  !.p = Some(bc.a), !.d = Some(bc.b)]}
         ELSE {Raise(r, "PMParamError", "bug_p")}
    ELSE {Raise(r, "PMParamError", "bug_MASTER")}

\* ig.py:141-142, 237-311: the dispatch; the set of its outcomes.
\* inverse_args and basic_args were taken from the names before v was
\* replaced by d; args follows the replacement.
Dispatch(r0, kwarg, args0) ==
    LET inverse_args == InverseNames \cap args0
        basic_args == BasicNames \cap args0
        args == ArgsAfterConvert(args0)
        r == [r0 EXCEPT !.dispatch =
                 Some([inverse_args |-> inverse_args, basic_args |-> basic_args,
                       args |-> args])]
    IN  IF inverse_args # {}
        THEN InverseCase(r, kwarg, inverse_args, basic_args)
        ELSE DirectCase(r, kwarg, args)

\* ig.py:193-201: the range check of T in Kelvin: the values the message
\* lists, and whether it ends with ", ..."
RangeCheck(TK) ==
    LET I == Select(TK, OutOfRange(TK))
    IN  [bad |-> I # <<>>, listed |-> Take(I, MsgValues), more |-> Len(I) > MsgValues]

\* ig.py:66-311: _argparse(*varg, **kwarg); the set of its outcomes
argparse(varg, kwarg, cfg) ==
    LET r0 == [NoResult EXCEPT !.varg = varg, !.kwarg = kwarg]
        b == BindPositional(varg, kwarg)
    IN
    IF b.err # "" THEN {Raise(r0, "PMParamError", b.err)}
    ELSE
    LET kw == ApplyDefaults(b.kwarg, cfg)
        r == [r0 EXCEPT !.defaulted = Some(kw)]
        rule == ArgumentRules(kw)
    IN
    IF rule # "" THEN {Raise(r, "PMParamError", rule)}
    ELSE
    LET rc == RangeCheck(IF "T" \in DOMAIN kw
                         THEN temperature_scale_to_K(kw["T"], cfg) ELSE <<>>)
    IN
    IF rc.bad
    THEN {[r EXCEPT !.kind = "PMParamError", !.msg = "T_out_of_range",
                    !.listed = rc.listed, !.more = rc.more]}
    ELSE Dispatch(r, ConvertUnits(kw, cfg), DOMAIN kw)

----------------------------------------------------------------------------
(* The public methods                                                      *)

\* What a public method hands back: kind is "return" or the exception
\* class; value is the returned array in the user's units.
\*   exact   no digit of the floating-point value was dropped when it was
\*           brought to the user's units
\*   sel     for a method that evaluates a polynomial: the regions whose
\*           _crange mask selected each element of T
Outcome(kind, value) == [kind |-> kind, value |-> value, exact |-> TRUE, sel |-> <<>>]
NoOutcome == Outcome("none", None)

\* pm.units.pressure(a, from_units='Pa')
pressure_from_Pa(a, cfg) ==
    [i \in DOMAIN a |-> IF cfg.unit_pressure = "bar" THEN a[i] \div 100000 ELSE a[i]]

\* pm.units.matter(a, mw, from_units='kmol')
matter_from_kmol(a, cfg) ==
    [i \in DOMAIN a |-> IF cfg.unit_matter = "mol" THEN a[i] * 1000 ELSE a[i]]

\* ig.py:1489-1490: T() with one argument in total sets kwarg['p'] = def_p
T_override(varg, kwarg, cfg) ==
    IF Len(varg) + Cardinality(DOMAIN kwarg) = 1
    THEN Put(kwarg, "p", cfg.def_p)
    ELSE kwarg

\* ig.py:1492-1494: T() after _argparse.  When _argparse hands back T = None,
\* the in-place conversion of line 1493 has no array to work on: an
\* exception, taken here to be a TypeError.
T_finish(r, cfg) ==
    IF r.kind # "return" THEN Outcome(r.kind, None)
    ELSE IF r.T = None THEN Outcome("TypeError", None)
    ELSE Outcome("return", Some(temperature_scale_from_K(Get(r.T), cfg)))

\* the temperature is left out of the product
p_finish_NoTemperature(r, cfg) ==
    IF r.kind # "return" THEN Outcome(r.kind, None)
    ELSE IF r.p = None
    THEN IF r.d = None \/ r.T = None THEN Outcome("TypeError", None)
         ELSE LET d == Get(r.d)
                  T == Get(r.T)
                  p == [i \in DOMAIN d |-> d[i] * R_J_kmol]
              IN  Outcome("return", Some(pressure_from_Pa(p, cfg)))
    ELSE Outcome("return", Some(pressure_from_Pa(Get(r.p), cfg)))

\* ig.py:1517-1521: p() after _argparse
p_finish(r, cfg) ==
    IF r.kind # "return" THEN Outcome(r.kind, None)
    ELSE IF r.p = None
    THEN IF r.d = None \/ r.T = None THEN Outcome("TypeError", None)
         ELSE LET d == Get(r.d)
                  T == Get(r.T)
                  p == [i \in DOMAIN d |-> d[i] * ((R_J_kmol * T[i]) \div 100)]
              IN  Outcome("return", Some(pressure_from_Pa(p, cfg)))
    ELSE Outcome("return", Some(pressure_from_Pa(Get(r.p), cfg)))

\* ig.py:1434-1440: d() after _argparse
d_finish(r, cfg) ==
    IF r.kind # "return" THEN Outcome(r.kind, None)
    ELSE IF r.d = None
    THEN IF r.p = None \/ r.T = None THEN Outcome("TypeError", None)
         ELSE LET p == Get(r.p)
                  T == Get(r.T)
                  d == [i \in DOMAIN p |->
                          IF T[i] = 0 THEN Inf ELSE (p[i] * 100) \div (R_J_kmol * T[i])]
              IN  [Outcome("return", Some(matter_from_kmol(d, cfg))) EXCEPT
                      !.exact = \A i \in DOMAIN p :
                                   T[i] # 0 /\ (p[i] * 100) % (R_J_kmol * T[i]) = 0]
    ELSE Outcome("return", Some(matter_from_kmol(Get(r.d), cfg)))

\* out *= scale, the scale being num/den in the user's units
Scaled(a, num, den, T) ==
    [kind |-> "return",
     value |-> Some([i \in DOMAIN a |-> Quot(a[i] * num, den)]),
     exact |-> \A i \in DOMAIN a : (a[i] * num) % den = 0,
     sel |-> Regions(T)]

\* ig.py:1597-1599, 1661-1662: the scale from kJ/kmol (and kJ/kmol/K) to
\* the user's units, as <<numerator, denominator>>: energy 'kJ' to kJ,
\* matter 'kmol' with exponent -1
scale_from_kJ_kmol(cfg) == IF cfg.unit_matter = "mol" THEN <<1, 1000>> ELSE <<1, 1>>

\* ig.py:1726-1727: the scale of e(): energy from 'J', matter from 'mol'
\* with exponent -1; the scale is one number before it multiplies the
\* array, so the fraction is in lowest terms
scale_from_J_mol(cfg) ==
    LET energy == 1000                                       \* J in a kJ
        matter == IF cfg.unit_matter = "mol" THEN 1 ELSE 1000 \* mol in the unit
    IN  <<matter \div matter, energy \div matter>>

\* ig.py:1541-1544: R(): pm.units.const_Ru from J/mol/K in the user's units
R_value(cfg) ==
    LET sc == scale_from_J_mol(cfg) IN Quot(const_Ru * sc[1], sc[2])

\* the polynomial evaluators compare T with the limits (_crange): with
\* T = None that is a TypeError
NoTemperature(r) == r.T = None

\* ig.py:1593-1602: cp() after _argparse
cp_finish(r, cfg) ==
    IF r.kind # "return" THEN Outcome(r.kind, None)
    ELSE IF NoTemperature(r) THEN Outcome("TypeError", None)
    ELSE LET sc == scale_from_kJ_kmol(cfg)
         IN  Scaled(_cp(Get(r.T)), sc[1], sc[2], Get(r.T))

\* ig.py:1625-1634: cv() after _argparse
cv_finish(r, cfg) ==
    IF r.kind # "return" THEN Outcome(r.kind, None)
    ELSE IF NoTemperature(r) THEN Outcome("TypeError", None)
    ELSE LET sc == scale_from_kJ_kmol(cfg)
             cp0 == _cp(Get(r.T))
         IN  Scaled([i \in DOMAIN cp0 |-> cp0[i] - const_Ru], sc[1], sc[2], Get(r.T))

\* the gas constant is added, not taken away
gam_finish_PlusR(r, cfg) ==
    IF r.kind # "return" THEN Outcome(r.kind, None)
    ELSE IF NoTemperature(r) THEN Outcome("TypeError", None)
    ELSE LET cp0 == _cp(Get(r.T))
         IN  Scaled([i \in DOMAIN cp0 |-> Quot(cp0[i] * 1000, cp0[i] + const_Ru)],
                    1, 1, Get(r.T))

\* ig.py:1567-1569: gam() after _argparse: cp/(cp - Ru), three decimals
gam_finish(r, cfg) ==
    IF r.kind # "return" THEN Outcome(r.kind, None)
    ELSE IF NoTemperature(r) THEN Outcome("TypeError", None)
    ELSE LET cp0 == _cp(Get(r.T))
         IN  Scaled([i \in DOMAIN cp0 |-> Quot(cp0[i] * 1000, cp0[i] - const_Ru)],
                    1, 1, Get(r.T))

\* ig.py:1657-1665: h() after _argparse
h_finish(r, cfg) ==
    IF r.kind # "return" THEN Outcome(r.kind, None)
    ELSE IF NoTemperature(r) THEN Outcome("TypeError", None)
    ELSE LET sc == scale_from_kJ_kmol(cfg)
         IN  Scaled(_h(Get(r.T)).f, sc[1], sc[2], Get(r.T))

\* pm.units.const_Ru * T in kJ/kmol, two decimals
RuT(T) ==
    [i \in DOMAIN T |->
        const_Ru * (T[i] \div 1000) + Quot(const_Ru * (T[i] % 1000), 1000)]

\* ig.py:1722-1730: e() after _argparse: h - Ru*T
e_finish(r, cfg) ==
    IF r.kind # "return" THEN Outcome(r.kind, None)
    ELSE IF NoTemperature(r) THEN Outcome("TypeError", None)
    ELSE LET sc == scale_from_J_mol(cfg)
             h0 == _h(Get(r.T)).f
         IN  Scaled([i \in DOMAIN h0 |-> h0[i] - RuT(Get(r.T))[i]], sc[1], sc[2], Get(r.T))

\* the pressure term is added, not taken away
s_finish_PlusLog(r, cfg) ==
    IF r.kind # "return" THEN Outcome(r.kind, None)
    ELSE IF NoTemperature(r) \/ (r.p = None /\ r.d = None) THEN Outcome("TypeError", None)
    ELSE LET T0 == Get(r.T)
             p0 == IF r.p = None
                   THEN [i \in DOMAIN T0 |-> Get(r.d)[i] * ((R_J_kmol * T0[i]) \div 100)]
                   ELSE Get(r.p)
             sc == scale_from_kJ_kmol(cfg)
         IN  Scaled([i \in DOMAIN T0 |-> _s(T0).f[i] + RuLog(p0)[i]], sc[1], sc[2], T0)

\* ig.py:1688-1699: s() after _argparse: _s(T) - Ru*log(p/pref), with
\* p = d*R*T when no pressure came back
s_finish(r, cfg) ==
    IF r.kind # "return" THEN Outcome(r.kind, None)
    ELSE IF NoTemperature(r) \/ (r.p = None /\ r.d = None) THEN Outcome("TypeError", None)
    ELSE LET T0 == Get(r.T)
             p0 == IF r.p = None
                   THEN [i \in DOMAIN T0 |-> Get(r.d)[i] * ((R_J_kmol * T0[i]) \div 100)]
                   ELSE Get(r.p)
             sc == scale_from_kJ_kmol(cfg)
         IN  Scaled([i \in DOMAIN T0 |-> _s(T0).f[i] - RuLog(p0)[i]], sc[1], sc[2], T0)

----------------------------------------------------------------------------
(* The calls a user makes: bounded sets of arguments, in the user's units  *)

\* "x" stands for any keyword that is no property name
Names == LegalNames \cup {"x"}

\* temperatures around the limits of the substance, in Kelvin
TVals(cfg) ==
    {temperature_scale_from_K(<<t>>, cfg)[1] :
        t \in {Tlim[1] - 1, Tlim[1], Tlim[Len(Tlim)], Tlim[Len(Tlim)] + 1}}

\* arrays of up to two temperatures, and longer arrays of n temperatures
\* of which the first k are below the range
ShortT(cfg) == {<<>>} \cup {<<t>> : t \in TVals(cfg)}
                 \cup {<<t, u>> : t \in TVals(cfg), u \in TVals(cfg)}
LongT(cfg) ==
    LET lo == temperature_scale_from_K(<<Tlim[1] - 1>>, cfg)[1]
        ok == temperature_scale_from_K(<<Tlim[2]>>, cfg)[1]
    IN  {[i \in 1..n |-> IF i <= k THEN lo ELSE ok] :
            n \in 3..MaxTLen, k \in {0, MaxTLen - 1, MaxTLen}} \cup
        {[i \in 1..MaxTLen |-> IF i = 1 THEN ok ELSE lo]}

\* one scalar of each property: 1 bar, 0.04 kmol/m3, 25 m3/kmol,
\* 6200 kJ/kmol, 3500 kJ/kmol (the enthalpy at 300 K; twice as much at
\* 400 K), 100 kJ/kmol/K (the entropy at 500 K and 1 bar; twice as much at
\* 1250 K)
Scalar(n, cfg) ==
    LET mol == cfg.unit_matter = "mol" IN
    CASE n = "T" -> temperature_scale_from_K(<<Tlim[1]>>, cfg)
      [] n = "p" -> pressure_from_Pa(<<pref_pa>>, cfg)
      [] n = "d" -> IF mol THEN <<4000>> ELSE <<4>>
      [] n = "v" -> IF mol THEN <<2>> ELSE <<2500>>
      [] n = "e" -> IF mol THEN <<620>> ELSE <<620000>>
      [] n = "h" -> IF mol THEN <<350>> ELSE <<350000>>
      [] n = "s" -> IF mol THEN <<100>> ELSE <<100000>>
      [] n = "x" -> <<0>>

\* the values a property takes in the calls that vary the values
Values(n, cfg) ==
    LET a == Scalar(n, cfg)[1] IN
    CASE n = "T" -> ShortT(cfg) \cup LongT(cfg)
      [] n = "p" -> {<<>>, <<a>>, <<a, 2 * a>>}
      [] n = "d" -> {<<>>, <<a>>, <<a, 2 * a, a>>}
      [] n \in {"v", "e", "h", "s"} -> {<<a>>, <<a, 2 * a>>}
      [] n = "x" -> {<<a>>}

\* the dicts over the names S; rich: with varied values
RECURSIVE Dicts(_, _, _)
Dicts(S, cfg, rich) ==
    IF S = {} THEN {EmptyDict}
    ELSE LET n == CHOOSE m \in S : TRUE
         IN  UNION {{Put(f, n, v) : v \in (IF rich THEN Values(n, cfg) ELSE {Scalar(n, cfg)})} :
                     f \in Dicts(S \ {n}, cfg, rich)}

NameSets(names, k) == {S \in SUBSET names : Cardinality(S) <= k}

\* calls that vary the names: up to MaxPos positional and MaxKw keyword
\* arguments, one scalar each
NameCalls(cfg) ==
    {[varg |-> [i \in 1..k |-> Scalar(IF i = 1 THEN "T" ELSE "p", cfg)], kwarg |-> kw] :
        k \in 0..MaxPos,
        kw \in UNION {Dicts(S, cfg, FALSE) : S \in NameSets(Names, MaxKw)}}

\* calls that vary the values: at most two properties in all
ValueCalls(cfg) ==
    UNION {
      {[varg |-> va, kwarg |-> kw] :
          va \in (CASE k = 0 -> {<<>>}
                    [] k = 1 -> {<<t>> : t \in Values("T", cfg)}
                    [] k = 2 -> {<<t, q>> : t \in ShortT(cfg), q \in Values("p", cfg)}),
          kw \in UNION {Dicts(S, cfg, TRUE) : S \in NameSets(LegalNames, 2 - k)}} :
      k \in 0..2}

Calls(cfg) == NameCalls(cfg) \cup ValueCalls(cfg)

\* temperatures (K) with a density (kmol/m3, two decimals) each, and the
\* pressure d*R*T of the pair in Pa
GasLawPoints == {<<20000, 8>>, <<30000, 4>>, <<Tlim[2], 2>>, <<Tlim[Len(Tlim)], 1>>}
GasLawPressure(pt) == pt[2] * ((R_J_kmol * pt[1]) \div 100)

\* calls with a temperature and the pressure of the ideal gas at one of
\* these densities: one point, or two points in one array
GasLawCalls(cfg) ==
    {[varg |-> <<>>,
      kwarg |-> Put(Put(EmptyDict, "T", temperature_scale_from_K(<<pt[1]>>, cfg)),
                    "p", pressure_from_Pa(<<GasLawPressure(pt)>>, cfg))] :
        pt \in GasLawPoints}
    \cup
    {[varg |-> <<>>,
      kwarg |-> Put(Put(EmptyDict, "T", temperature_scale_from_K(<<pt[1], qt[1]>>, cfg)),
                    "p", pressure_from_Pa(<<GasLawPressure(pt), GasLawPressure(qt)>>, cfg))] :
        pt \in GasLawPoints, qt \in GasLawPoints}

\* temperatures inside the range for the methods that evaluate the
\* polynomials: the limits, each side of the interior breakpoint, and one
\* inside each region
PropTK ==
    {<<t>> : t \in {Tlim[1], 30000, Tlim[2] - 1, Tlim[2], 125000, Tlim[Len(Tlim)]}}
        \cup {<<30000, Tlim[2]>>, <<Tlim[1], Tlim[2] - 1, Tlim[Len(Tlim)]>>}
PropT(cfg) ==
    {temperature_scale_from_K(a, cfg) : a \in PropTK \cup {<<>>, <<Tlim[1] - 1>>}}

RECURSIVE PropDicts(_, _)
PropDicts(S, cfg) ==
    IF S = {} THEN {EmptyDict}
    ELSE LET n == CHOOSE m \in S : TRUE
         IN  UNION {{Put(f, n, v) : v \in (IF n = "T" THEN PropT(cfg) ELSE Values(n, cfg))} :
                     f \in PropDicts(S \ {n}, cfg)}

\* the calls of the methods that evaluate the polynomials: at most two
\* properties in all
PropCalls(cfg) ==
    UNION {
      {[varg |-> va, kwarg |-> kw] :
          va \in (CASE k = 0 -> {<<>>}
                    [] k = 1 -> {<<t>> : t \in PropT(cfg)}
                    [] k = 2 -> {<<t, q>> : t \in PropT(cfg), q \in Values("p", cfg)}),
          kw \in UNION {PropDicts(S, cfg) : S \in NameSets(LegalNames, 2 - k)}} :
      k \in 0..2}

----------------------------------------------------------------------------
(* The state machine: a user sets the configuration and calls a method;    *)
(* the call runs to its end; the user takes the result.                    *)

\* ig.py:577-580: the activation record of _test(report): where the call
\* is, the local `result`, the checks written to the report as
\* <<number, passed>>, and the calls of property methods made so far
NoTest == [at |-> "none", result |-> TRUE, report |-> <<>>, evals |-> 0]

\* call.of is None, or what the call before gave when this call is made
\* with the value that one returned
NoCall == [method |-> "", first |-> None, varg |-> <<>>, kwarg |-> EmptyDict, of |-> None]

Init ==
    /\ config = ConfigDefault
    /\ pc = "idle"
    /\ call = NoCall
    /\ res = NoResult
    /\ out = NoOutcome
    /\ frame = NoFrame
    /\ data = Record
    /\ test = NoTest

\* pm.config[...] = ...
SetConfig ==
    /\ pc = "idle"
    /\ \E c \in Configs \ {config} : config' = c
    /\ UNCHANGED <<pc, call, res, out, frame, data, test>>

\* ig.py:1465-1494: T(*varg, **kwarg); the set of its outcomes [res, out]
T_method(varg, kwarg, cfg) ==
    {[res |-> r, out |-> T_finish(r, cfg)] :
        r \in argparse(varg, T_override(varg, kwarg, cfg), cfg)}

\* ig.py:1496-1521: p(*varg, **kwarg)
p_method(varg, kwarg, cfg) ==
    {[res |-> r, out |-> p_finish(r, cfg)] : r \in argparse(varg, kwarg, cfg)}

\* ig.py:1413-1440: d(*varg, **kwarg)
d_method(varg, kwarg, cfg) ==
    {[res |-> r, out |-> d_finish(r, cfg)] : r \in argparse(varg, kwarg, cfg)}

Finish(method, first, c, ro) ==
    /\ pc' = "done"
    /\ call' = [method |-> method, first |-> first, varg |-> c.varg, kwarg |-> c.kwarg,
                of |-> None]
    /\ res' = ro.res
    /\ out' = ro.out
    /\ UNCHANGED <<config, frame, data, test>>

\* the call is made with the value the call before returned
FinishAfter(method, first, c, ro) ==
    /\ pc' = "done"
    /\ call' = [method |-> method, first |-> first, varg |-> c.varg, kwarg |-> c.kwarg,
                of |-> Some([method |-> call.method, T |-> res.T, p |-> res.p, d |-> res.d,
                             value |-> out.value, exact |-> out.exact])]
    /\ res' = ro.res
    /\ out' = ro.out
    /\ UNCHANGED <<config, frame, data, test>>

\* the call before returned, having resolved the two properties a and b;
\* its value is passed on only where the model holds every digit of it
Returned(method, a, b) ==
    /\ pc = "done"
    /\ call.method = method
    /\ call.of = None
    /\ out.kind = "return"
    /\ out.exact
    /\ res.defaulted # None
    /\ DOMAIN Get(res.defaulted) = {a, b}

\* the user calls T(...)
T ==
    /\ pc = "idle"
    /\ \E c \in Calls(config) :
         \E ro \in T_method(c.varg, c.kwarg, config) : Finish("T", None, c, ro)

\* the user calls p(...)
p ==
    /\ pc = "idle"
    /\ \E c \in Calls(config) :
         \E ro \in p_method(c.varg, c.kwarg, config) : Finish("p", None, c, ro)

\* the user calls d(...)
d ==
    /\ pc = "idle"
    /\ \E c \in Calls(config) \cup GasLawCalls(config) :
         \E ro \in d_method(c.varg, c.kwarg, config) : Finish("d", None, c, ro)

\* the calls of a method whose first parameter is the property n: n cannot
\* be a keyword as well (Python rejects the call)
CallsWithout(n, cfg) == {c \in ValueCalls(cfg) : n \notin DOMAIN c.kwarg}

\* ig.py:1733-1748: T_s(s, *varg, **kwarg) is T(*varg, s=s, **kwarg)
T_s ==
    /\ pc = "idle"
    /\ \E c \in CallsWithout("s", config), s \in Values("s", config) :
         \E ro \in T_method(c.varg, Put(c.kwarg, "s", s), config) :
            Finish("T_s", Some(s), c, ro)

\* ig.py:1751-1768: T_h(h, *varg, **kwarg) is T(*varg, h=h, **kwarg)
T_h ==
    /\ pc = "idle"
    /\ \E c \in CallsWithout("h", config), h \in Values("h", config) :
         \E ro \in T_method(c.varg, Put(c.kwarg, "h", h), config) :
            Finish("T_h", Some(h), c, ro)

\* ig.py:1771-1785: p_s(s, *varg, **kwarg) is p(*varg, s=s, **kwarg)
p_s ==
    /\ pc = "idle"
    /\ \E c \in CallsWithout("s", config), s \in Values("s", config) :
         \E ro \in p_method(c.varg, Put(c.kwarg, "s", s), config) :
            Finish("p_s", Some(s), c, ro)

\* ig.py:1572-1602: cp(*varg, **kwarg)
cp_method(varg, kwarg, cfg) ==
    {[res |-> r, out |-> cp_finish(r, cfg)] : r \in argparse(varg, kwarg, cfg)}

\* ig.py:1604-1634: cv(*varg, **kwarg)
cv_method(varg, kwarg, cfg) ==
    {[res |-> r, out |-> cv_finish(r, cfg)] : r \in argparse(varg, kwarg, cfg)}

\* ig.py:1546-1569: gam(*varg, **kwarg)
gam_method(varg, kwarg, cfg) ==
    {[res |-> r, out |-> gam_finish(r, cfg)] : r \in argparse(varg, kwarg, cfg)}

\* ig.py:1636-1665: h(*varg, **kwarg)
h_method(varg, kwarg, cfg) ==
    {[res |-> r, out |-> h_finish(r, cfg)] : r \in argparse(varg, kwarg, cfg)}

\* ig.py:1701-1730: e(*varg, **kwarg)
e_method(varg, kwarg, cfg) ==
    {[res |-> r, out |-> e_finish(r, cfg)] : r \in argparse(varg, kwarg, cfg)}

\* ig.py:1667-1699: s(*varg, **kwarg)
s_method(varg, kwarg, cfg) ==
    {[res |-> r, out |-> s_finish(r, cfg)] : r \in argparse(varg, kwarg, cfg)}

\* the user calls cp(...)
cp ==
    /\ pc = "idle"
    /\ \E c \in PropCalls(config) :
         \E ro \in cp_method(c.varg, c.kwarg, config) : Finish("cp", None, c, ro)

\* the user calls cv(...)
cv ==
    /\ pc = "idle"
    /\ \E c \in PropCalls(config) :
         \E ro \in cv_method(c.varg, c.kwarg, config) : Finish("cv", None, c, ro)

\* the user calls gam(...)
gam ==
    /\ pc = "idle"
    /\ \E c \in PropCalls(config) :
         \E ro \in gam_method(c.varg, c.kwarg, config) : Finish("gam", None, c, ro)

\* the user calls h(...)
h ==
    /\ pc = "idle"
    /\ \E c \in PropCalls(config) :
         \E ro \in h_method(c.varg, c.kwarg, config) : Finish("h", None, c, ro)

\* the user calls e(...)
e ==
    /\ pc = "idle"
    /\ \E c \in PropCalls(config) :
         \E ro \in e_method(c.varg, c.kwarg, config) : Finish("e", None, c, ro)

\* the user calls s(...)
s ==
    /\ pc = "idle"
    /\ \E c \in PropCalls(config) :
         \E ro \in s_method(c.varg, c.kwarg, config) : Finish("s", None, c, ro)

\* ig.py:1530-1532: mw(): data['mw'] from g to the unit of mass, per mol
\* to per unit of molar amount; the configurations keep unit_mass = 'kg'
\* (1000 g) and unit_molar = 'kmol' (1000 mol)
mw_value(cfg) == Quot(data_mw * 1000, 1000)

\* ig.py:1523-1532: mw(*varg, **kwarg): no argument is looked at
mw_method(varg, kwarg, cfg) ==
    {[res |-> NoResult, out |-> Outcome("return", Some(<<mw_value(cfg)>>))]}

\* ig.py:1534-1544: R(T=None, p=None): by the signature of line 1534
\* Python binds the positional arguments to T and p in turn and raises
\* TypeError for a third positional argument, for a keyword other than T
\* and p, and for a parameter given both ways
R_method(varg, kwarg, cfg) ==
    {[res |-> NoResult,
      out |-> IF /\ Len(varg) <= 2
                 /\ DOMAIN kwarg \subseteq {"T", "p"}
                 /\ ~(Len(varg) >= 1 /\ "T" \in DOMAIN kwarg)
                 /\ ~(Len(varg) >= 2 /\ "p" \in DOMAIN kwarg)
              THEN Outcome("return", Some(<<R_value(cfg)>>))
              ELSE Outcome("TypeError", None)]}

\* the user calls mw(...)
mw ==
    /\ pc = "idle"
    /\ \E c \in NameCalls(config) :
         \E ro \in mw_method(c.varg, c.kwarg, config) : Finish("mw", None, c, ro)

\* the user calls R(...)
R ==
    /\ pc = "idle"
    /\ \E c \in NameCalls(config) :
         \E ro \in R_method(c.varg, c.kwarg, config) : Finish("R", None, c, ro)

\* ig.py:848-849 (test 3.9): T_h(h) with h = h(T)
T_h_of_h ==
    /\ Returned("h", "T", "p")
    /\ LET c == [varg |-> <<>>, kwarg |-> EmptyDict]
           h0 == Get(out.value)
       IN  \E ro \in T_method(c.varg, Put(c.kwarg, "h", h0), config) :
              FinishAfter("T_h", Some(h0), c, ro)

\* ig.py:864-865 (test 3.10): T_s(s, p=p) with s = s(T=T, p=p)
T_s_of_s ==
    /\ Returned("s", "T", "p")
    /\ LET c == [varg |-> <<>>, kwarg |-> Put(EmptyDict, "p", Get(res.defaulted)["p"])]
           s0 == Get(out.value)
       IN  \E ro \in T_method(c.varg, Put(c.kwarg, "s", s0), config) :
              FinishAfter("T_s", Some(s0), c, ro)

\* ig.py:767-781 (test 3.4): p(T=T, d=d) with d = d(T=T, p=p)
p_of_d ==
    /\ Returned("d", "T", "p")
    /\ LET c == [varg |-> <<>>,
                 kwarg |-> Put(Put(EmptyDict, "T", Get(res.defaulted)["T"]),
                               "d", Get(out.value))]
       IN  \E ro \in p_method(c.varg, c.kwarg, config) : FinishAfter("p", None, c, ro)

\* ig.py:767-781 (test 3.4): T(p=p, d=d) with d = d(T=T, p=p)
T_of_d ==
    /\ Returned("d", "T", "p")
    /\ LET c == [varg |-> <<>>,
                 kwarg |-> Put(Put(EmptyDict, "p", Get(res.defaulted)["p"]),
                               "d", Get(out.value))]
       IN  \E ro \in T_method(c.varg, c.kwarg, config) : FinishAfter("T", None, c, ro)

\* the call is over: the user has the result
Return ==
    /\ pc = "done"
    /\ pc' = "idle"
    /\ call' = NoCall
    /\ res' = NoResult
    /\ out' = NoOutcome
    /\ UNCHANGED <<config, frame, data, test>>

Next ==
    \/ SetConfig
    \/ T \/ p \/ d \/ T_s \/ T_h \/ p_s
    \/ cp \/ cv \/ gam \/ h \/ e \/ s
    \/ mw \/ R
    \/ T_h_of_h \/ T_s_of_s \/ p_of_d \/ T_of_d
    \/ Return

Spec == Init /\ [][Next]_vars

----------------------------------------------------------------------------
(* _iter1 on its own: a call with arguments from bounded sets, taken one   *)
(* pass of a loop at a time                                                *)

\* longest array handed to _iter1
IterLen == 2
\* largest Nmax handed to _iter1
IterNmax == 3

\* targets of an inversion: for _s the entropies at 200 K, 300 K and
\* 2000 K, one just above the entropy at 999.99 K and one below the range;
\* for _h the enthalpies at 200 K, 300 K, 1000 K and 2000 K and one below
\* the range; initial guesses: just below the breakpoint, and the middle
\* of the range (ig.py:252, 265); the arrays y and x of n elements
IterArrays(fn, n) ==
    [1..n -> (IF fn = "_s" THEN {70000, 80000, 350000, 150007, 60000}
              ELSE {100000, 350000, 4900000, 34900000, 50000})
             \X {Tlim[2] - 1, MidT}]

\* the down-select arrays: every element, or every element but the first
IterIds(n) == {[i \in 1..n |-> TRUE], [i \in 1..n |-> i > 1]}

\* a call of _iter1; the bounds are those _argparse passes (ig.py:256, 266)
IterInit ==
    /\ config = ConfigDefault
    /\ pc = "iter1"
    /\ call = NoCall
    /\ res = NoResult
    /\ out = NoOutcome
    /\ data = Record
    /\ test = NoTest
    /\ \E fn \in {"_s", "_h"}, n \in 1..IterLen, Nmax \in 1..IterNmax,
          xmax \in {Tlim[2], Tlim[Len(Tlim)]}, ep \in {EpInv, 100} :
         \E a \in IterArrays(fn, n), I \in IterIds(n) :
            frame = [Frame(fn, EmptyDict, [i \in 1..n |-> a[i][1]],
                           [i \in 1..n |-> a[i][2]], I, Tlim[1], xmax, Nmax)
                        EXCEPT !.epinv = ep]

\* ig.py:384-407: the loop test and one Newton step
IterWhile ==
    /\ pc = "iter1"
    /\ frame.at = "while"
    /\ frame' = iter1_while(frame)
    /\ UNCHANGED <<config, pc, call, res, out, data, test>>

\* ig.py:408-416: one pass of the bounds recovery
IterHalve ==
    /\ pc = "iter1"
    /\ frame.at = "halve"
    /\ frame' = iter1_halve(frame)
    /\ UNCHANGED <<config, pc, call, res, out, data, test>>

\* ig.py:418-426: the convergence test and the count
IterConverge ==
    /\ pc = "iter1"
    /\ frame.at = "converge"
    /\ frame' = iter1_converge(frame)
    /\ UNCHANGED <<config, pc, call, res, out, data, test>>

IterNext == IterWhile \/ IterHalve \/ IterConverge

IterSpec == IterInit /\ [][IterNext]_vars

----------------------------------------------------------------------------
(* The constructor and the self-test _test, on records that may be        *)
(* malformed                                                               *)

\* the records an object is built from: the record of the substance, and
\* that record with one fault: breakpoints out of order, two breakpoints
\* equal, a coefficient group missing, one group too many, a group of 7
\* coefficients, a group of 4, and an entry __basetest__ requires missing
Records ==
    { Record,
      [Record EXCEPT !.Tlim = <<Tlim[2], Tlim[1], Tlim[3]>>],
      [Record EXCEPT !.Tlim = <<Tlim[1], Tlim[2], Tlim[2]>>],
      [Record EXCEPT !.C = <<DataC[1]>>],
      [Record EXCEPT !.C = <<DataC[1], DataC[2], DataC[2]>>],
      [Record EXCEPT !.C = <<DataC[1], Take(DataC[2], 7)>>],
      [Record EXCEPT !.C = <<DataC[1], Take(DataC[2], 4)>>],
      [Record EXCEPT !.keys = @ \ {"doc"}] }

\* ig.py:313-329: _crange(T, index) on the record rec
rec_crange(rec, x, index) ==
    IF index = Len(rec.Tlim) - 2
    THEN [i \in DOMAIN x |-> x[i] >= rec.Tlim[index + 1] /\ x[i] <= rec.Tlim[index + 2]]
    ELSE [i \in DOMAIN x |-> x[i] >= rec.Tlim[index + 1] /\ x[i] < rec.Tlim[index + 2]]

\* ig.py:450-454: the loop of _cp over range(len(Tlim)-1) on the record
\* rec: C = self.data['C'][ii] and C[4] are IndexErrors when the group or
\* the coefficient is not there, whether or not the region selects an
\* element; else the last region that selects an element writes it
rec_cp(rec, x) ==
    LET last == Len(rec.Tlim) - 2
        regs == [i \in DOMAIN x |-> {ii \in 0..last : rec_crange(rec, x, ii)[i]}]
    IN  IF \E ii \in 0..last : ii >= Len(rec.C) \/ Len(rec.C[ii + 1]) < 5
        THEN [kind |-> "IndexError", value |-> None]
        ELSE [kind |-> "return",
              value |-> Some([i \in DOMAIN x |->
                               IF regs[i] = {} THEN 0
                               ELSE cp_formula(rec.C[Writer(regs[i]) + 1], x[i])])]

\* ig.py:1572-1602 with ig.py:191-201: cp(T=T0) on the record rec: the
\* range check of _argparse against Tlim[0] and Tlim[-1], then _cp and the
\* scale; polys: _cp was called
rec_cp_method(rec, T0, cfg) ==
    LET TK == temperature_scale_to_K(T0, cfg)
        sc == scale_from_kJ_kmol(cfg)
        c == rec_cp(rec, TK)
    IN  IF \E i \in DOMAIN TK : TK[i] < rec.Tlim[1] \/ TK[i] > rec.Tlim[Len(rec.Tlim)]
        THEN [res |-> Raise(NoResult, "PMParamError", "T_out_of_range"),
              out |-> Outcome("PMParamError", None)]
        ELSE [res |-> [NoResult EXCEPT !.polys = 1, !.kind = "return"],
              out |-> IF c.kind # "return" THEN Outcome(c.kind, None)
                      ELSE Outcome("return",
                               Some([i \in DOMAIN TK |->
                                       Quot(Get(c.value)[i] * sc[1], sc[2])]))]

\* an object is about to be built from a record
LoadInit ==
    /\ config \in Configs
    /\ pc = "new"
    /\ call = NoCall
    /\ res = NoResult
    /\ out = NoOutcome
    /\ frame = NoFrame
    /\ data \in Records
    /\ test = NoTest

\* ig.py:57-63, reg.py:87-95: ig(data): self.data = data, __basetest__
\* (reg.py:105-135: PMDataError when a mandatory entry is missing; ig sets
\* no `mandatory` of its own), self.__doc__ = self.data['doc']
Construct ==
    /\ pc = "new"
    /\ IF mandatory \ data.keys # {}
       THEN /\ pc' = "failed"
            /\ out' = Outcome("PMDataError", None)
       ELSE /\ pc' = "idle"
            /\ out' = out
    /\ UNCHANGED <<config, call, res, frame, data, test>>

\* the user calls cp(T=T0) on the object, at the lower limit, at 300 K,
\* at the breakpoint, at 1500 K, or at 300 K and 1500 K
cp_of_record ==
    /\ pc = "idle"
    /\ \E TK \in {<<Tlim[1]>>, <<30000>>, <<Tlim[2]>>, <<150000>>, <<30000, 150000>>} :
         LET T0 == temperature_scale_from_K(TK, config)
             ro == rec_cp_method(data, T0, config)
         IN  /\ pc' = "done"
             /\ call' = [NoCall EXCEPT !.method = "cp", !.kwarg = Put(EmptyDict, "T", T0)]
             /\ res' = ro.res
             /\ out' = ro.out
    /\ UNCHANGED <<config, frame, data, test>>

\* ig.py:577-621: _test(): part 1, data integrity: the three tests of
\* lines 588-592 (1.1), 601 (1.2) and 611 (1.3); a failure ends the call
test_integrity(rec) ==
    LET Tlim_monotonic == \A i \in 1..(Len(rec.Tlim) - 1) : rec.Tlim[i] < rec.Tlim[i + 1]
        dimensions_match == Len(rec.Tlim) = Len(rec.C) + 1
        eight_coefficients == \A ii \in DOMAIN rec.C : Len(rec.C[ii]) = 8
        report == << <<"1.1", Tlim_monotonic>>, <<"1.2", dimensions_match>>,
                     <<"1.3", eight_coefficients>> >>
        result == Tlim_monotonic /\ dimensions_match /\ eight_coefficients
    IN  [at |-> IF result THEN "continuity" ELSE "return",
         result |-> result,
         report |-> IF result THEN report ELSE Append(report, <<"FATAL", FALSE>>),
         evals |-> 0]

\* a / b > .0001 in floating point, for a >= 0: a division by zero gives
\* inf (or nan for 0 / 0, which compares False)
RatioAbove(a, b) ==
    IF b > 0 THEN a > b \div 10000 ELSE IF b = 0 THEN a > 0 ELSE FALSE

\* the call of _test starts; part 1 (ig.py:577-621)
TestIntegrity ==
    /\ pc = "idle"
    /\ LET t == test_integrity(data)
       IN  /\ test' = t
           /\ call' = [NoCall EXCEPT !.method = "_test"]
           /\ IF t.at = "return"
              THEN pc' = "done" /\ out' = Outcome("return", Some(<<FALSE>>))
              ELSE pc' = "test" /\ out' = out
    /\ UNCHANGED <<config, res, frame, data>>


\* ig.py:627-648: the body of the loop over the interior breakpoints for
\* the breakpoint TK (Kelvin): what cp(TT), h(TT) and s(TT) gave as rc,
\* rh, rs; the checks that found a discontinuity there (lines 633-648:
\* the values on the two sides, each carried .0001 T along its slope, are
\* compared; cp and s carry three decimals, T and h two)
continuity_at(TK, rc, rh, rs, cfg) ==
    LET T0 == temperature_scale_from_K(<<TK>>, cfg)[1]
        cp0 == Get(rc.out.value)
        h0 == Get(rh.out.value)
        s0 == Get(rs.out.value)
        h1 == h0[1] + Quot(cp0[1] * (T0 \div 100), 100000)
        h2 == h0[2] - Quot(cp0[2] * (T0 \div 100), 100000)
        s1 == s0[1] + Quot(cp0[1], 10000)
        s2 == s0[2] - Quot(cp0[2], 10000)
    IN  (IF RatioAbove(Abs(cp0[1] - cp0[2]), cp0[1]) THEN {"2.1"} ELSE {})
        \cup (IF RatioAbove(Abs(h1 - h2), h1) THEN {"2.2"} ELSE {})
        \cup (IF RatioAbove(Abs(s1 - s2), s1) THEN {"2.3"} ELSE {})

\* ig.py:623-685: part 2, model continuity, for a record with one
\* interior breakpoint as the well-formed record has: cp, h and s are
\* called on each side of it; an exception of theirs leaves _test
TestContinuity ==
    /\ pc = "test"
    /\ test.at = "continuity"
    /\ LET T0 == temperature_scale_from_K(<<data.Tlim[2]>>, config)[1]
           \* TT = T * np.array([0.9999, 1.0001]), with two decimals
           TT == <<Quot(T0 * 9999, 10000), Quot(T0 * 10001, 10000)>>
       IN  \E rc \in cp_method(<<TT>>, EmptyDict, config),
              rh \in h_method(<<TT>>, EmptyDict, config),
              rs \in s_method(<<TT>>, EmptyDict, config) :
             LET raised == {r \in {rc, rh, rs} : r.out.kind # "return"}
             IN  IF raised # {}
                 THEN /\ pc' = "done"
                      /\ out' = Outcome((CHOOSE r \in raised : TRUE).out.kind, None)
                      /\ test' = [test EXCEPT !.at = "raise", !.evals = @ + 3]
                 ELSE LET failed == continuity_at(data.Tlim[2], rc, rh, rs, config)
                      IN  /\ pc' = "test"
                          /\ out' = out
                          /\ test' = [test EXCEPT
                                 !.at = "numerical",
                                 !.result = @ /\ failed = {},
                                 !.report = @ \o << <<"2.1", "2.1" \notin failed>>,
                                                    <<"2.2", "2.2" \notin failed>>,
                                                    <<"2.3", "2.3" \notin failed>> >>,
                                 !.evals = @ + 3]
    /\ UNCHANGED <<config, call, res, frame, data>>

\* ig.py:687-882: part 3, the comparisons with the table data['TAB'], and
\* the return of `result`.  The table is not part of the record here:
\* either every comparison of part 3 passes or one of them fails.  The
\* part calls cp, cv, h, e, gam, s, h again, d, R three times, T_h and T_s.
TestNumerical ==
    /\ pc = "test"
    /\ test.at = "numerical"
    /\ \E passed \in BOOLEAN :
         /\ test' = [test EXCEPT !.at = "return",
                                 !.result = @ /\ passed,
                                 !.report = Append(@, <<"3", passed>>),
                                 !.evals = @ + 13]
         /\ out' = Outcome("return", Some(<<test.result /\ passed>>))
    /\ pc' = "done"
    /\ UNCHANGED <<config, call, res, frame, data>>

LoadNext ==
    \/ Construct
    \/ cp_of_record
    \/ TestIntegrity \/ TestContinuity \/ TestNumerical
    \/ Return

LoadSpec == LoadInit /\ [][LoadNext]_vars

----------------------------------------------------------------------------
(* Vocabulary of the properties                                            *)

\* a call of a method that resolves its arguments has finished (mw and R
\* never call _argparse, _test takes no property)
Done == pc = "done" /\ call.method \notin {"mw", "R", "_test"}

\* the names the positional arguments stand for
PosNames(varg) ==
    (IF Len(varg) >= 1 THEN {"T"} ELSE {}) \cup (IF Len(varg) >= 2 THEN {"p"} ELSE {})

\* the property a wrapper method takes as its first parameter
FirstName == IF call.method = "T_h" THEN "h" ELSE "s"

\* the distinct properties the user named in the call of the public method
UserNames ==
    (DOMAIN call.kwarg) \cup PosNames(call.varg)
        \cup (IF call.first = None THEN {} ELSE {FirstName})

\* the distinct properties _argparse was given
ResolverNames == (DOMAIN res.kwarg) \cup PosNames(res.varg)

\* a positional argument clashes with a keyword, or there are too many
PositionalConflict ==
    \/ Len(res.varg) >= 1 /\ "T" \in DOMAIN res.kwarg
    \/ Len(res.varg) >= 2 /\ "p" \in DOMAIN res.kwarg
    \/ Len(res.varg) > 2

\* the properties _argparse was given, by name
GivenDict ==
    [n \in ResolverNames |->
        IF n = "T" /\ Len(res.varg) >= 1 THEN res.varg[1]
        ELSE IF n = "p" /\ Len(res.varg) >= 2 THEN res.varg[2]
        ELSE res.kwarg[n]]

\* a temperature of the user, in Kelvin
KelvinOf(x) == IF config.unit_temperature = "C" THEN x + 27315 ELSE x
\* a pressure of the user, in Pascal
PascalOf(x) == IF config.unit_pressure = "bar" THEN x * 100000 ELSE x

\* the places of an array of temperatures that are outside the range
BadPlaces(a) ==
    {i \in DOMAIN a : KelvinOf(a[i]) < Tlim[1] \/ KelvinOf(a[i]) > Tlim[Len(Tlim)]}

NoTriplet == res.T = None /\ res.p = None /\ res.d = None

----------------------------------------------------------------------------
(* C1: a call of a property method that names more than two distinct       *)
(* properties, positional T and p and keywords counted together, raises a  *)
(* parameter error and produces no T, p, d triplet.                        *)
C1_MoreThanTwoRejected ==
    (Done /\ Cardinality(UserNames) > 2) =>
        /\ out.kind = "PMParamError"
        /\ res.kind = "PMParamError"
        /\ NoTriplet
        /\ out.value = None

\* one positional temperature and two keywords are rejected by rule 2.1
C1_Witness ==
    /\ Done
    /\ Len(call.varg) = 1
    /\ Cardinality(DOMAIN call.kwarg) = 2
    /\ Cardinality(UserNames) = 3
    /\ res.msg = "more_than_two"

(* C2: density d and specific volume v together are rejected with a        *)
(* parameter error by the validation, whatever their values: the call      *)
(* reaches neither the dispatch nor a result.                              *)
C2_DensityAndVolumeRejected ==
    (Done /\ {"d", "v"} \subseteq UserNames) =>
        /\ out.kind = "PMParamError"
        /\ res.kind = "PMParamError"
        /\ res.dispatch = None
        /\ NoTriplet

\* d (an array of three) and v alone are rejected by rule 2.4
C2_Witness ==
    /\ Done
    /\ UserNames = {"d", "v"}
    /\ Len(call.kwarg["d"]) = 3
    /\ res.msg = "d_and_v"

(* C3: temperature together with enthalpy h or internal energy e raises a  *)
(* parameter error and starts no inversion and no polynomial evaluation;   *)
(* when the arguments bind and every T is in range, the error is the one   *)
(* of the illegal combination.                                             *)
C3_TemperatureWithEnergyRejected ==
    (Done /\ ResolverNames \in {{"T", "h"}, {"T", "e"}}) =>
        /\ res.kind = "PMParamError"
        /\ out.kind = "PMParamError"
        /\ res.iter1 = 0
        /\ res.polys = 0
        /\ NoTriplet
        /\ (~PositionalConflict /\ BadPlaces(GivenDict["T"]) = {})
              => res.msg = "T_with_inverse"

\* T = Tlim[-1], the last temperature in range, with e
C3_Witness ==
    /\ Done
    /\ ResolverNames = {"T", "e"}
    /\ ~PositionalConflict
    /\ Len(GivenDict["T"]) = 1
    /\ KelvinOf(GivenDict["T"][1]) = Tlim[Len(Tlim)]
    /\ res.msg = "T_with_inverse"

(* C4: two of e, h, s in one call raise a parameter error; a call that     *)
(* reaches the dispatch has at most one inverse property and, if it has    *)
(* one, exactly one basic property with it, which is T, p or d.            *)
C4_OneInverseOneBasic ==
    Done =>
        /\ Cardinality(ResolverNames \cap InverseNames) > 1 => res.kind = "PMParamError"
        /\ res.dispatch # None =>
             LET dsp == Get(res.dispatch) IN
             /\ Cardinality(dsp.inverse_args) <= 1
             /\ Cardinality(dsp.inverse_args) = 1 =>
                  /\ Cardinality(dsp.basic_args) = 1
                  /\ dsp.basic_args \subseteq {"T", "p", "d"}

\* the earliest of the rules 1-4 that a set of names violates, "" if none
FirstViolated(N) ==
    IF Cardinality(N) > 2 THEN "more_than_two"
    ELSE IF N \ {"T", "p", "d", "v", "e", "h", "s"} # {} THEN "unrecognized"
    ELSE IF Cardinality(N \cap {"e", "h", "s"}) > 1 THEN "inverse_together"
    ELSE IF {"d", "v"} \subseteq N THEN "d_and_v"
    ELSE ""

C6_DefaultsTemperatureFirst ==
    (Done /\ ~PositionalConflict) =>
        /\ res.defaulted # None
        /\ ResolverNames = {} =>
              /\ Get(res.defaulted) = [n \in {"T", "p"} |->
                                          IF n = "T" THEN config.def_T ELSE config.def_p]
              /\ BadPlaces(config.def_T) = {} =>
                    /\ res.kind = "return"
                    /\ res.T = Some(<<KelvinOf(config.def_T[1])>>)
                    /\ res.p = Some(<<PascalOf(config.def_p[1])>>)
        /\ (Cardinality(ResolverNames) = 1 /\ "T" \notin ResolverNames) =>
              Get(res.defaulted) = Put(GivenDict, "T", config.def_T)
        /\ ResolverNames = {"T"} =>
              Get(res.defaulted) = Put(GivenDict, "p", config.def_p)
        /\ Cardinality(ResolverNames) >= 2 => Get(res.defaulted) = GivenDict

\* only a density is given: the result has T = def_T and no pressure
C6_Witness ==
    /\ Done
    /\ ResolverNames = {"d"}
    /\ res.kind = "return"
    /\ res.T = Some(<<KelvinOf(config.def_T[1])>>)
    /\ res.p = None

(* C7: T() called with one argument in all never has def_T put in place    *)
(* of the temperature regardless of that argument: when such a call        *)
(* returns, the resolver has used the lone argument as the user gave it.   *)
C7_LoneArgumentOfTUsed ==
    (/\ Done
     /\ call.method = "T"
     /\ Len(call.varg) + Cardinality(DOMAIN call.kwarg) = 1
     /\ out.kind = "return") =>
        /\ res.defaulted # None
        /\ \A n \in DOMAIN call.kwarg :
              /\ n \in DOMAIN Get(res.defaulted)
              /\ Get(res.defaulted)[n] = call.kwarg[n]
        /\ Len(call.varg) = 1 => Get(res.defaulted)["T"] = call.varg[1]

(* C8: when an element of the temperature the call gives, or of the        *)
(* default temperature it falls back on, is outside [Tlim[0], Tlim[-1]]    *)
(* in Kelvin, the call raises a parameter error before any polynomial is   *)
(* evaluated or any inversion started, and the message lists at most 8     *)
(* values: the first 8 out-of-range values, in order.                      *)
TemperaturesOfCall ==
    (IF Len(res.varg) >= 1 THEN {res.varg[1]} ELSE {})
    \cup (IF "T" \in DOMAIN res.kwarg THEN {res.kwarg["T"]} ELSE {})
    \cup (IF res.defaulted # None /\ "T" \in DOMAIN Get(res.defaulted)
          THEN {Get(res.defaulted)["T"]} ELSE {})

C8_OutOfRangeRejectedFirst ==
    (Done /\ \E a \in TemperaturesOfCall : BadPlaces(a) # {}) =>
        /\ res.kind = "PMParamError"
        /\ out.kind = "PMParamError"
        /\ res.iter1 = 0
        /\ res.polys = 0
        /\ NoTriplet
        /\ Len(res.listed) <= 8
        /\ res.msg = "T_out_of_range" =>
              LET a == Get(res.defaulted)["T"]
                  n == Cardinality(BadPlaces(a))
              IN  /\ Len(res.listed) = (IF n > 8 THEN 8 ELSE n)
                  /\ res.more = (n > 8)
                  /\ \A k \in DOMAIN res.listed :
                        \E i \in BadPlaces(a) :
                           /\ res.listed[k] = KelvinOf(a[i])
                           /\ Cardinality({j \in BadPlaces(a) : j < i}) = k - 1

\* more than eight temperatures out of range: eight listed, then ", ..."
C8_Witness ==
    /\ Done
    /\ res.msg = "T_out_of_range"
    /\ Len(res.listed) = 8
    /\ res.more

(* C9: a call of the resolver that returns yields a triplet with T         *)
(* populated and at least one of p and d populated.                        *)
C9_ReturnedTripletPopulated ==
    (Done /\ res.kind = "return") =>
        /\ res.T # None
        /\ res.p # None \/ res.d # None

(* C10: temperature and entropy together: the resolver returns the given   *)
(* T with a pressure computed in closed form, without calling the scalar   *)
(* inverter and without raising.                                           *)
C10_TemperatureWithEntropyClosedForm ==
    (/\ Done
     /\ ~PositionalConflict
     /\ ResolverNames = {"T", "s"}
     /\ BadPlaces(GivenDict["T"]) = {}
     /\ CanBroadcast(GivenDict["T"], GivenDict["s"])) =>
        /\ res.kind = "return"
        /\ res.iter1 = 0
        /\ res.T # None
        /\ Len(Get(res.T)) = BroadcastLen(GivenDict["T"], GivenDict["s"])
        /\ \A i \in DOMAIN Get(res.T) :
              Get(res.T)[i] = KelvinOf(BroadcastTo(GivenDict["T"], Len(Get(res.T)))[i])
        /\ res.p # None

----------------------------------------------------------------------------
(* Vocabulary of the direct and inverse cases                              *)

\* the properties the resolver goes on with after the defaults
Defaulted == Get(res.defaulted)

\* an array of the user in the units of the class
KelvinArr(a) == [i \in DOMAIN a |-> KelvinOf(a[i])]
PascalArr(a) == [i \in DOMAIN a |-> PascalOf(a[i])]
KmolArr(a) ==
    [i \in DOMAIN a |-> IF config.unit_matter = "mol" THEN a[i] \div 1000 ELSE a[i]]

\* the call passed the validation with exactly the properties a and b,
\* every temperature in range
Supplied(a, b) ==
    /\ Done
    /\ ~PositionalConflict
    /\ res.defaulted # None
    /\ DOMAIN Defaulted = {a, b}
    /\ "T" \in {a, b} => BadPlaces(Defaulted["T"]) = {}

\* the common shape of the two arrays
Common(a, b) == BroadcastLen(Defaulted[a], Defaulted[b])

(* C11: two basic properties given directly start no iteration and no      *)
(* polynomial evaluation: T with p, or T with d, come back as given (in    *)
(* Kelvin, Pascal, kmol/m3), broadcast to their common shape, the third    *)
(* slot left empty; p with d come back with T = p/(R*d), element by        *)
(* element.                                                                *)
C11_DirectNoIteration ==
    /\ (Supplied("T", "p") /\ CanBroadcast(Defaulted["T"], Defaulted["p"])) =>
          /\ res.kind = "return" /\ res.iter1 = 0 /\ res.polys = 0
          /\ res.T = Some(BroadcastTo(KelvinArr(Defaulted["T"]), Common("T", "p")))
          /\ res.p = Some(BroadcastTo(PascalArr(Defaulted["p"]), Common("T", "p")))
          /\ res.d = None
    /\ (Supplied("T", "d") /\ CanBroadcast(Defaulted["T"], Defaulted["d"])) =>
          /\ res.kind = "return" /\ res.iter1 = 0 /\ res.polys = 0
          /\ res.T = Some(BroadcastTo(KelvinArr(Defaulted["T"]), Common("T", "d")))
          /\ res.d = Some(BroadcastTo(KmolArr(Defaulted["d"]), Common("T", "d")))
          /\ res.p = None
    /\ (Supplied("p", "d") /\ CanBroadcast(Defaulted["p"], Defaulted["d"])) =>
          /\ res.kind = "return" /\ res.iter1 = 0 /\ res.polys = 0
          /\ res.p = Some(BroadcastTo(PascalArr(Defaulted["p"]), Common("p", "d")))
          /\ res.d = Some(BroadcastTo(KmolArr(Defaulted["d"]), Common("p", "d")))
          /\ res.T # None
          /\ Len(Get(res.T)) = Common("p", "d")
          /\ \A i \in DOMAIN Get(res.T) :
                Get(res.T)[i] = (Get(res.p)[i] * 100) \div (R_J_kmol * Get(res.d)[i])

\* one pressure with three densities: three temperatures in closed form,
\* not all the same
C11_Witness ==
    /\ Supplied("p", "d")
    /\ Len(Defaulted["p"]) = 1
    /\ Len(Defaulted["d"]) = 3
    /\ res.kind = "return"
    /\ Len(Get(res.T)) = 3
    /\ Get(res.T)[1] # Get(res.T)[2]

(* C12: density with entropy: the resolver inverts the combined function   *)
(* of _sditer for T with the scalar inverter and returns that T with d,    *)
(* the pressure left empty; the call ends with a result, a parameter       *)
(* error or an analysis error, never with another failure.                 *)
C12_DensityEntropyInverted ==
    (Supplied("d", "s") /\ CanBroadcast(Defaulted["d"], Defaulted["s"])) =>
        /\ res.kind \in {"return", "PMParamError", "PMAnalysisError"}
        /\ res.iter1 = 1
        /\ Get(res.frame).fn = "_sditer"
        /\ res.kind = "return" =>
              /\ res.T = Some(Get(res.frame).x)
              /\ res.d = Some(BroadcastTo(KmolArr(Defaulted["d"]), Common("d", "s")))
              /\ res.p = None

\* _e(T) hands back h(T) - Ru*T, the number the public e() scales, and the
\* derivative cp(T) - Ru
EnergyHelperAt(T0) ==
    LET E == _e(T0) IN
    /\ E.kind = "return"
    /\ \A i \in DOMAIN T0 :
          /\ E.f[i] = _h(T0).f[i] - RuT(T0)[i]
          /\ E.fx[i] * 1000 = (_cp(T0)[i] - const_Ru) * E.per

(* C13: an internal energy given with a pressure or with a density is      *)
(* inverted by _iter1 on _e, and the call ends with the triplet or with an *)
(* analysis error; at every temperature of the domain that a call came     *)
(* back with, _e gives h(T) - Ru*T and the derivative cp(T) - Ru.          *)
C13_EnergyInverted ==
    /\ \A b \in {"p", "d"} :
          (Supplied("e", b) /\ CanBroadcast(Defaulted["e"], Defaulted[b])) =>
              /\ res.iter1 = 1
              /\ Get(res.frame).fn = "_e"
              /\ res.kind \in {"return", "PMAnalysisError"}
    /\ (Supplied("T", "p") /\ res.kind = "return") => EnergyHelperAt(Get(res.T))

\* a call of T_h or T_s made with the value that h() or s() returned, that
\* value having lost no digit in the user's units
Inverted(m) == Done /\ call.method = m /\ call.of # None /\ Get(call.of).exact

\* the temperatures of the first call, in Kelvin
FirstT == Get(Get(call.of).T)

\* the temperatures that came back, within 0.01% of the first ones
BackWithin ==
    /\ out.kind = "return"
    /\ ~res.warned
    /\ LET T1 == KelvinArr(Get(out.value)) IN
       /\ Len(T1) = Len(FirstT)
       /\ \A i \in DOMAIN T1 : Abs(T1[i] - FirstT[i]) <= FirstT[i] \div 10000

(* C14: T_h of the enthalpy h(T) gives T back, and T_s of the entropy      *)
(* s(T, p) with the same p gives T back, within 0.01%, at every            *)
(* temperature of the range (the limits and the breakpoint included); the  *)
(* entropy _iter1 is asked to reach is the polynomial _s(T) itself: the    *)
(* shift by Ru*ln(p/pref) undoes the pressure term of s().                 *)
C14_RoundTrip ==
    /\ Inverted("T_h") => BackWithin
    /\ Inverted("T_s") =>
          /\ BackWithin
          /\ Get(res.frame).y = _s(FirstT).f

\* an entropy of two temperatures, one at the breakpoint, at a pressure
\* other than the reference pressure, is inverted
C14_Witness ==
    /\ Inverted("T_s") /\ BackWithin
    /\ Len(FirstT) >= 2
    /\ \E i \in DOMAIN FirstT : FirstT[i] = Tlim[2]
    /\ \E i \in DOMAIN FirstT : Get(Get(call.of).p)[i] # pref_pa
    /\ Get(res.frame).evals > 1

\* the pairs of properties the dispatch of ig.py:239-311 broadcasts
BroadcastPairs ==
    {<<a, b>> : a \in InverseNames, b \in {"p", "d"}}
        \cup {<<"T", "p">>, <<"T", "d">>, <<"p", "d">>}

(* C15: two properties whose shapes cannot be broadcast to a common shape  *)
(* end the call with PMParamError, on the paths inverse with p or d, T     *)
(* with p, T with d, and p with d.                                         *)
C15_ShapeMismatchIsParamError ==
    \A pr \in BroadcastPairs :
        (Supplied(pr[1], pr[2]) /\ ~CanBroadcast(Defaulted[pr[1]], Defaulted[pr[2]])) =>
            res.kind = "PMParamError"

\* a method that evaluates a polynomial returned: the temperatures it
\* evaluated it at, and whether one is inside the range of the substance
Evaluated_T == Get(res.T)
Selected == Done /\ out.kind = "return" /\ out.sel # <<>>
InRange(T0) == Tlim[1] <= T0 /\ T0 <= Tlim[Len(Tlim)]

(* C18: every temperature of the range is selected by the mask of exactly  *)
(* one region, the region ii with Tlim[ii] <= T < Tlim[ii+1]; the upper    *)
(* limit Tlim[-1] is selected by the last region; the breakpoint between   *)
(* two regions is selected by the upper one only.                          *)
C18_RegionsPartition ==
    Selected =>
        \A i \in DOMAIN out.sel :
            InRange(Evaluated_T[i]) =>
                /\ Cardinality(out.sel[i]) = 1
                /\ \A ii \in out.sel[i] :
                      /\ Tlim[ii + 1] <= Evaluated_T[i]
                      /\ \/ Evaluated_T[i] < Tlim[ii + 2]
                         \/ ii = Len(Tlim) - 2 /\ Evaluated_T[i] = Tlim[Len(Tlim)]
                /\ \A k \in 2..(Len(Tlim) - 1) :
                      Evaluated_T[i] = Tlim[k] => out.sel[i] = {k - 1}

\* an array with the breakpoint in it was evaluated
C18_Witness ==
    /\ Selected
    /\ Len(out.sel) >= 2
    /\ \E i \in DOMAIN out.sel : Evaluated_T[i] = Tlim[2] /\ out.sel[i] = {1}
    /\ \E i \in DOMAIN out.sel : Evaluated_T[i] < Tlim[2] /\ out.sel[i] = {0}

\* gam() returned for temperatures inside the range
GamReturned ==
    /\ Done /\ call.method = "gam" /\ out.kind = "return"
    /\ \A i \in DOMAIN Evaluated_T : InRange(Evaluated_T[i])

\* the call of gam with the temperatures alone
GamOfTAlone ==
    gam_method(<<>>, Put(EmptyDict, "T", temperature_scale_from_K(Evaluated_T, config)),
               config)

(* C19: where gam() returns, cp() and cv() of the same arguments return,   *)
(* cv + R = cp in the user's units to the last decimal carried, and, where *)
(* cp and cv lost no digit in the user's units, cv = cp - Ru and           *)
(* gam = cp/cv to three decimals; gam() of the temperatures alone returns  *)
(* the same array, whatever second property the call had.                  *)
C19_GamIsCpOverCv ==
    GamReturned =>
        \A c \in cp_method(call.varg, call.kwarg, config),
           v \in cv_method(call.varg, call.kwarg, config) :
            /\ c.out.kind = "return" /\ v.out.kind = "return"
            /\ \A g \in GamOfTAlone : g.out = out
            /\ LET cp0 == Get(c.out.value)
                   cv0 == Get(v.out.value)
                   gam0 == Get(out.value)
               IN  \A i \in DOMAIN gam0 :
                     /\ Abs(cv0[i] + R_value(config) - cp0[i]) <= 1
                     /\ (c.out.exact /\ v.out.exact) =>
                           /\ cv0[i] = cp0[i] - R_value(config)
                           /\ gam0[i] = Quot(cp0[i] * 1000, cv0[i])

\* gam() of two temperatures in different regions, given with a density
C19_Witness ==
    /\ GamReturned
    /\ "d" \in DOMAIN call.kwarg
    /\ Len(Evaluated_T) >= 2
    /\ \E i, j \in DOMAIN out.sel : out.sel[i] # out.sel[j]

\* a call made with the density d(T, p) returned, that density having lost
\* no digit in the model's fixed point
WithDensityOf(m) == Done /\ call.method = m /\ call.of # None /\ Get(call.of).exact

(* C20: d(T, p) is p/(R*T) (the quotient to the last decimal of the        *)
(* model, in kmol/m3 from Pa and K); p(T, d) and T(p, d) called with that  *)
(* density and the T or p of the first call give back the first p and the  *)
(* first T, within 0.01%.                                                  *)
C20_IdealGasLaw ==
    /\ (Supplied("T", "p") /\ call.method = "d" /\ out.kind = "return") =>
          LET d0 == KmolArr(Get(out.value)) IN
          \A i \in DOMAIN d0 :
              LET RT == R_J_kmol * Get(res.T)[i]
                  rest == Get(res.p)[i] * 100 - d0[i] * RT
              IN  0 <= rest /\ rest < RT
    /\ WithDensityOf("p") =>
          /\ out.kind = "return"
          /\ LET p0 == Get(Get(call.of).p)
                 p1 == PascalArr(Get(out.value))
             IN  /\ Len(p1) = Len(p0)
                 /\ \A i \in DOMAIN p0 : Abs(p1[i] - p0[i]) <= p0[i] \div 10000
    /\ WithDensityOf("T") =>
          /\ out.kind = "return"
          /\ LET T0 == Get(Get(call.of).T)
                 T1 == KelvinArr(Get(out.value))
             IN  /\ Len(T1) = Len(T0)
                 /\ \A i \in DOMAIN T0 : Abs(T1[i] - T0[i]) <= T0[i] \div 10000

\* the pressure came back for two temperatures with different densities
C20_Witness ==
    /\ WithDensityOf("p")
    /\ out.kind = "return"
    /\ Len(Get(Get(call.of).T)) = 2
    /\ Get(Get(call.of).T)[1] # Get(Get(call.of).T)[2]
    /\ Get(Get(call.of).value)[1] # Get(Get(call.of).value)[2]

\* the method m was called by the convention of the property methods:
\* keywords among T, p, d, v, e, h, s, or the positional T, p, and no
\* property given twice
CalledByConvention(m) ==
    /\ pc = "done"
    /\ call.method = m
    /\ Len(call.varg) <= 2
    /\ DOMAIN call.kwarg \subseteq LegalNames
    /\ PosNames(call.varg) \cap DOMAIN call.kwarg = {}

(* C21: R() and mw() take any keywords among T, p, d, v, e, h, s and the   *)
(* positional T, p, look at none of them and return, without raising, the  *)
(* constant of the substance in the units of the configuration.            *)
C21_ConstantsIgnoreArguments ==
    /\ CalledByConvention("mw") =>
            /\ out.kind = "return"
            /\ out.value = Some(<<mw_value(config)>>)
    /\ CalledByConvention("R") =>
            /\ out.kind = "return"
            /\ out.value = Some(<<R_value(config)>>)

\* _argparse ran an inversion: the frame of its call of _iter1
Inversion == Done /\ res.frame # None

(* C23: every inversion _argparse starts, with p or with d beside the      *)
(* inverse property, hands _iter1 the midpoint of the global range as the  *)
(* initial guess and the global limits Tlim[0], Tlim[-1] as the bounds, so *)
(* the guess lies inside the bounds.                                       *)
C23_GuessInsideGlobalBounds ==
    Inversion =>
        LET F == Get(res.frame)
        IN  /\ F.x0 = [i \in DOMAIN F.y |-> (Tlim[1] + Tlim[Len(Tlim)]) \div 2]
            /\ F.xmin = Tlim[1]
            /\ F.xmax = Tlim[Len(Tlim)]
            /\ \A i \in DOMAIN F.x0 : F.xmin <= F.x0[i] /\ F.x0[i] <= F.xmax

\* the methods that hand the resolved T to a polynomial evaluator
PolynomialMethods == {"cp", "cv", "gam", "h", "e", "s"}

(* C27: every temperature _argparse returns lies inside [Tlim[0],          *)
(* Tlim[-1]], whether it was supplied, inverted or computed as p/(R*d); so *)
(* no polynomial evaluator is handed an element that no region selects.    *)
C27_ResolvedTemperatureInRange ==
    /\ (Done /\ res.kind = "return" /\ res.T # None) =>
          \A i \in DOMAIN Get(res.T) : InRange(Get(res.T)[i])
    /\ (Done /\ call.method \in PolynomialMethods /\ out.kind = "return") =>
          \A i \in DOMAIN out.sel : out.sel[i] # {}

----------------------------------------------------------------------------
(* The substance record (LoadSpec)                                         *)

\* the data invariants of a record (ig.py:540-546)
WellFormed(rec) == test_integrity(rec).result

\* the checks of the parts after the data integrity
LaterChecks == {"2.1", "2.2", "2.3", "3"}

(* C22: a record that violates the data invariants is fatal for the        *)
(* substance: no property method evaluates it, and _test stops after the   *)
(* data integrity checks and returns False, before any continuity or       *)
(* numerical check.                                                        *)
C22_MalformedRecordIsFatal ==
    ~WellFormed(data) =>
        /\ ~(pc = "done" /\ call.method = "cp" /\ res.polys > 0)
        /\ pc # "test"
        /\ (pc = "done" /\ call.method = "_test") =>
              /\ out = Outcome("return", Some(<<FALSE>>))
              /\ test.evals = 0
              /\ \A i \in DOMAIN test.report : test.report[i][1] \notin LaterChecks

----------------------------------------------------------------------------
(* _iter1 (IterSpec)                                                       *)

(* C16: _iter1 evaluates fn at most Nmax times; if it returns with         *)
(* elements still active it has printed the warning, with the number of    *)
(* the active elements in it, and x holds the guesses inside the bounds.   *)
C16_AtMostNmaxEvaluations ==
    /\ frame.evals <= frame.Nmax
    /\ frame.count <= frame.Nmax
    /\ (frame.at = "return" /\ AnyOf(frame.Ids)) =>
          /\ frame.kind = "return"
          /\ frame.warned
          /\ frame.failed = CountOf(frame.Ids)
          /\ ~AnyOf(OutOfBounds(frame.x, frame.xmin, frame.xmax))

(* C17: _iter1 raises when, and only when, the inner loop has halved the   *)
(* step more than Nmax times within one outer iteration; what it raises is *)
(* PMAnalysisError, and no warning was printed; an outer iteration that    *)
(* goes on to the convergence test halved at most Nmax times and left      *)
(* every element inside the bounds.                                        *)
C17_HalvingExhaustionFatal ==
    /\ (frame.at = "raise") <=> (frame.count_oob > frame.Nmax)
    /\ frame.at = "raise" =>
          /\ frame.kind = "PMAnalysisError"
          /\ frame.kind # "PMParamError"
          /\ ~frame.warned
    /\ frame.at = "halve" => AnyOf(frame.IooB) /\ frame.count_oob <= frame.Nmax
    /\ frame.at = "converge" =>
          /\ frame.count_oob <= frame.Nmax
          /\ ~AnyOf(OutOfBounds(frame.x, frame.xmin, frame.xmax))

\* the inversion was given up after Nmax + 1 halvings
C17_Witness ==
    /\ frame.at = "raise"
    /\ frame.count_oob = frame.Nmax + 1
    /\ frame.Nmax > 1

\* fn at the place where element i was last handed to it
FnAt(F, i) == Eval(F.fn, <<F.xe[i]>>, ShrinkParam(F.param, [j \in DOMAIN F.x |-> j = i])).f[1]

\* element i of the frame F is within the tolerance of its target, by the
\* error of the last evaluation
WithinTolerance(F, i) == Abs(F.y[i] - FnAt(F, i)) <= Abs(F.y[i]) \div F.epinv

(* C24: in the convergence test of an outer iteration an active element    *)
(* becomes inactive exactly when |y - f(x)| <= ep*|y| for the error of     *)
(* that iteration's evaluation; the mask only shrinks, and an inactive     *)
(* element is never handed to fn again.                                    *)
C24_MaskOnlyShrinks ==
    [][/\ \A i \in DOMAIN frame.Ids :
            /\ frame'.Ids[i] => frame.Ids[i]
            /\ ~frame.Ids[i] => frame'.calls[i] = frame.calls[i]
       /\ frame.at = "converge" =>
            \A i \in DOMAIN frame.Ids :
                frame.Ids[i] => (~frame'.Ids[i] <=> WithinTolerance(frame, i))
       /\ frame.at # "converge" => frame'.Ids = frame.Ids]_vars

\* one element has converged and is left alone while another is
\* evaluated again
C24_Witness ==
    \E i, j \in DOMAIN frame.Ids :
        /\ frame.Ids0[i] /\ ~frame.Ids[i] /\ frame.calls[i] >= 1
        /\ frame.calls[j] > frame.calls[i]

\* every element of x is inside the bounds
Inside(x, xmin, xmax) == \A i \in DOMAIN x : xmin <= x[i] /\ x[i] <= xmax

RECURSIVE Pow2(_)
Pow2(k) == IF k = 0 THEN 1 ELSE 2 * Pow2(k - 1)

\* element i of the frame F is its value before the step plus the Newton
\* step over 2^k, k the halvings of the element; x carries two decimals,
\* and every halving may cut one digit off
SteppedBy(F, i) ==
    LET k == F.halved[i]
    IN  Abs(Pow2(k) * (F.x[i] - F.xe[i]) - F.dx0[i]) < Pow2(k) * (k + 1)

(* C25: provided every element of x starts inside [xmin, xmax], every      *)
(* element is inside [xmin, xmax] at the end of every outer iteration that *)
(* does not raise; halving changes only the elements out of bounds, and    *)
(* after k halvings such an element is its value before the step plus the  *)
(* Newton step over 2^k.                                                   *)
C25_BoundsRecovery ==
    /\ [](Inside(frame.x0, frame.xmin, frame.xmax) =>
            /\ frame.at \in {"while", "converge", "return"} =>
                  Inside(frame.x, frame.xmin, frame.xmax)
            /\ frame.at \in {"halve", "converge", "raise"} =>
                  \A i \in DOMAIN frame.x :
                     IF frame.Ids[i] THEN frame.evals > 0 => SteppedBy(frame, i)
                     ELSE frame.x[i] = frame.xe[i] /\ frame.halved[i] = 0)
    /\ [][(Inside(frame.x0, frame.xmin, frame.xmax) /\ frame.at = "halve") =>
            \A i \in DOMAIN frame.x :
               /\ ~frame.IooB[i] => frame'.x[i] = frame.x[i] /\ frame'.dx[i] = frame.dx[i]
               /\ frame.IooB[i] => frame.Ids[i] /\ frame'.halved[i] = frame.halved[i] + 1]_vars

\* two elements stepped out of the bounds; one was back inside after one
\* halving, the other after more
C25_Witness ==
    /\ Inside(frame.x0, frame.xmin, frame.xmax)
    /\ frame.at = "converge"
    /\ \E i, j \in DOMAIN frame.x :
          /\ frame.halved[i] = 1
          /\ frame.halved[j] >= 2

(* C26: _iter1 hands fn the active elements only, never changes the target *)
(* array y, and leaves alone every element of x that is inactive and       *)
(* inside [xmin, xmax], whether it was inactive when _iter1 was called or  *)
(* converged in an earlier iteration.                                      *)
C26_InactiveElementsLeftAlone ==
    [][/\ frame'.y = frame.y
       /\ \A i \in DOMAIN frame.x :
            /\ frame'.calls[i] # frame.calls[i] => frame.Ids[i]
            /\ (~frame.Ids[i] /\ frame.xmin <= frame.x[i] /\ frame.x[i] <= frame.xmax) =>
                   frame'.x[i] = frame.x[i]]_vars

\* an element inactive at the call still holds what it held, after two
\* evaluations that moved another element
C26_Witness ==
    \E i, j \in DOMAIN frame.x :
        /\ ~frame.Ids0[i] /\ frame.calls[i] = 0 /\ frame.x[i] = frame.x0[i]
        /\ frame.xmin <= frame.x[i] /\ frame.x[i] <= frame.xmax
        /\ frame.calls[j] >= 2 /\ frame.x[j] # frame.x0[j]

(* C28: _iter1 prints its non-convergence warning only when an element is  *)
(* still active once the iteration cap is reached; when the last permitted *)
(* outer iteration switches off every remaining element it returns         *)
(* without a warning.                                                      *)
C28_WarningOnlyIfActive ==
    /\ frame.warned => AnyOf(frame.Ids) /\ frame.failed > 0
    /\ (frame.at = "return" /\ ~AnyOf(frame.Ids)) => ~frame.warned

(* C29: every call of _iter1 comes to an end: it returns or raises after   *)
(* no more evaluations of fn than the iteration cap Nmax, and no outer     *)
(* iteration halves the step more often than Nmax.                         *)
C29_EndsWithinTheCap ==
    /\ frame.at \in {"while", "halve", "converge", "return", "raise"}
    /\ frame.count <= frame.evals
    /\ frame.evals <= frame.Nmax
    /\ frame.count_oob <= frame.Nmax
    /\ \A i \in DOMAIN frame.halved : frame.halved[i] <= frame.Nmax

\* fn at the value x of element i
FnOf(F, x, i) == Eval(F.fn, <<x>>, ShrinkParam(F.param, [j \in DOMAIN F.x |-> j = i])).f[1]

\* |y - fn(x)| <= ep*|y| for element i
Tolerated(F, x, i) == Abs(F.y[i] - FnOf(F, x, i)) <= Abs(F.y[i]) \div F.epinv

\* _iter1 has returned and printed no warning
ReturnedQuietly == frame.at = "return" /\ frame.kind = "return" /\ ~frame.warned

(* C30 as stated: when _iter1 returns without a warning, every element     *)
(* that was active at the call satisfies |y - f(x)| <= ep*|y| at the x     *)
(* returned, and that x is the value at which the convergence test was     *)
(* passed, not one stepped past it.                                        *)
C30_ReturnedValuePassedTheTest ==
    ReturnedQuietly =>
        \A i \in DOMAIN frame.x :
            frame.Ids0[i] =>
                /\ Tolerated(frame, frame.x[i], i)
                /\ frame.x[i] = frame.xt[i]

(* C30 as the code has it: when _iter1 returns without a warning, every    *)
(* element that was active at the call satisfied |y - f(x)| <= ep*|y| at   *)
(* the value it was last evaluated at, and the x returned is that value    *)
(* plus the last Newton step dx as bounds recovery halved it (each halving *)
(* cuts one fixed-point digit at most).                                    *)
C30_ReturnedValueIsOneStepOn ==
    ReturnedQuietly =>
        \A i \in DOMAIN frame.x :
            frame.Ids0[i] =>
                /\ Tolerated(frame, frame.xt[i], i)
                /\ Abs(frame.x[i] - frame.xt[i] - frame.dx[i]) <= frame.Nmax + 1

\* an element passed the test at one value and was returned at another
C30_Witness ==
    /\ ReturnedQuietly
    /\ \E i \in DOMAIN frame.x :
          /\ frame.Ids0[i]
          /\ frame.calls[i] >= 2
          /\ frame.dx[i] # 0
          /\ frame.x[i] # frame.xt[i]

====
